---- MODULE Spec2Model ----
(***************************************************************************)
(* Role resolution of the Hiring Assistant: intake (node_intake), the      *)
(* fuzzy matcher (match_one), the custom template writer                   *)
(* (save_custom_role) and the operator handlers of the two front ends      *)
(* (the single-file app/ui.py and the tabbed app/tabs/roles_tab.py with    *)
(* its components) that move a RoleSpec between unknown, suggest and match.*)
(*                                                                         *)
(* Representation.  A title or phrase is a sequence of tokens and every    *)
(* token is a one-letter word, so the character-level measures of the      *)
(* scorers (rapidfuzz token_set_ratio, difflib SequenceMatcher) are        *)
(* computed exactly on the strings the model uses; letter case is not      *)
(* represented.  Scores are integers in 0..10000 (the code's 0..1 floats   *)
(* times 10000), None confidence is -1.  An id is a record                 *)
(* [slug, stamp]: stamp 0 for a curated id, the clock second of the        *)
(* "__custom__YYYYMMDD_HHMMSS" suffix for a custom one.                    *)
(***************************************************************************)
EXTENDS Integers, Sequences, FiniteSets, TLC

\* ---------------------------------------------------------------- bounds
MaxTitles == 2
MaxRoles == 2
MaxClock == 2
MaxSessions == 2
MaxCustom == 2
MaxTmp == 2

\* ------------------------------------------------------- program constants
DefaultFuzzyThreshold == 88
WeakMargin == 20
TopKLimit == 10
TopSuggestions == 3
SuggestTopK == 3
ScoreScale == 10000
FullConfidence == 10000
NoConfidence == 0 - 1

\* ------------------------------------------------------------ small helpers
Max2(a, b) == IF a >= b THEN a ELSE b

Min2(a, b) == IF a <= b THEN a ELSE b

SeqToSet(s) == {s[i] : i \in DOMAIN s}

\* Python's None for role_id, file and created_at
NoneId == [slug |-> <<>>, stamp |-> 0]

NoneFile == [dir |-> "none", name |-> NoneId]

NoneTime == 0

\* the string of a title: its one-letter words joined by single blanks
RECURSIVE JoinWords(_)
JoinWords(t) ==
    IF Len(t) = 0 THEN <<>>
    ELSE IF Len(t) = 1 THEN <<t[1]>>
    ELSE <<t[1], " ">> \o JoinWords(Tail(t))

\* ------------------------------------------- rapidfuzz.fuzz.token_set_ratio
\* length of " ".join(S) for a set S of one-letter words
JoinedLen(S) == IF S = {} THEN 0 ELSE 2 * Cardinality(S) - 1

\* 100 - 100 * dist / lensum, scaled to 0..10000
NormDistance(dist, lensum) ==
    IF lensum = 0 THEN ScoreScale
    ELSE (ScoreScale * (lensum - dist)) \div lensum

\* indel distance of the two sorted, joined difference strings: the sets are
\* disjoint, so the only common characters are the joining blanks
DiffIndel(dab, dba) ==
    LET blanksA == IF dab = {} THEN 0 ELSE Cardinality(dab) - 1
        blanksB == IF dba = {} THEN 0 ELSE Cardinality(dba) - 1
    IN  JoinedLen(dab) + JoinedLen(dba) - 2 * Min2(blanksA, blanksB)

token_set_ratio(s1, s2) ==
    LET tokens_a == SeqToSet(s1)
        tokens_b == SeqToSet(s2)
        intersect == tokens_a \cap tokens_b
        diff_ab == tokens_a \ tokens_b
        diff_ba == tokens_b \ tokens_a
        ab_len == JoinedLen(diff_ab)
        ba_len == JoinedLen(diff_ba)
        sect_len == JoinedLen(intersect)
        sep == IF sect_len /= 0 THEN 1 ELSE 0
        sect_ab_len == sect_len + sep + ab_len
        sect_ba_len == sect_len + sep + ba_len
        result == NormDistance(DiffIndel(diff_ab, diff_ba), sect_ab_len + sect_ba_len)
        sect_ab_ratio == NormDistance(sep + ab_len, sect_len + sect_ab_len)
        sect_ba_ratio == NormDistance(sep + ba_len, sect_len + sect_ba_len)
    IN  IF tokens_a = {} \/ tokens_b = {} THEN 0
        ELSE IF intersect /= {} /\ (diff_ab = {} \/ diff_ba = {}) THEN ScoreScale
        ELSE IF sect_len = 0 THEN result
        ELSE Max2(result, Max2(sect_ab_ratio, sect_ba_ratio))

\* ------------------------------------------- difflib.SequenceMatcher.ratio
\* length of the common block of a and b that starts at a[i], b[j]
RECURSIVE BlockLen(_, _, _, _, _, _)
BlockLen(a, i, ahi, b, j, bhi) ==
    IF i < ahi /\ j < bhi /\ a[i] = b[j]
    THEN 1 + BlockLen(a, i + 1, ahi, b, j + 1, bhi)
    ELSE 0

\* find_longest_match on a[alo..ahi-1], b[blo..bhi-1]: the longest block,
\* of those the one that starts earliest in a, of those earliest in b
LongestMatch(a, alo, ahi, b, blo, bhi) ==
    LET starts == {<<i, j>> \in (alo .. ahi - 1) \X (blo .. bhi - 1) : a[i] = b[j]}
        best(p) == \A q \in starts :
            LET kp == BlockLen(a, p[1], ahi, b, p[2], bhi)
                kq == BlockLen(a, q[1], ahi, b, q[2], bhi)
            IN  \/ kp > kq
                \/ kp = kq /\ p[1] < q[1]
                \/ kp = kq /\ p[1] = q[1] /\ p[2] <= q[2]
    IN  IF starts = {} THEN <<alo, blo, 0>>
        ELSE LET p == CHOOSE x \in starts : best(x)
             IN  <<p[1], p[2], BlockLen(a, p[1], ahi, b, p[2], bhi)>>

\* sum of the sizes of get_matching_blocks
RECURSIVE MatchCount(_, _, _, _, _, _)
MatchCount(a, alo, ahi, b, blo, bhi) ==
    LET m == LongestMatch(a, alo, ahi, b, blo, bhi)
    IN  IF m[3] = 0 THEN 0
        ELSE m[3] + MatchCount(a, alo, m[1], b, blo, m[2])
                  + MatchCount(a, m[1] + m[3], ahi, b, m[2] + m[3], bhi)

SequenceRatio(a, b) ==
    IF Len(a) + Len(b) = 0 THEN ScoreScale
    ELSE (2 * ScoreScale * MatchCount(a, 1, Len(a) + 1, b, 1, Len(b) + 1))
            \div (Len(a) + Len(b))

\* ------------------------------------------------------------ the inputs
\* phrases an operator can type or an extractor can return
Phrases == {<<"f", "e">>, <<"x">>}

\* what extraction hands to intake: the heuristic splitter's or the external
\* extractor's titles, zero or more phrases
TitleLists == UNION {[1 .. n -> Phrases] : n \in 0 .. MaxTitles}

\* the two front ends of the repository
Frontends == {"legacy", "tabs"}

\* ------------------------------------------------------------ _slugify
\* the words of a normalized title joined by "_"
RECURSIVE Slugify(_)
Slugify(t) ==
    IF Len(t) = 0 THEN <<>>
    ELSE IF Len(t) = 1 THEN <<t[1]>>
    ELSE <<t[1], "_">> \o Slugify(Tail(t))

\* ------------------------------------------------------------ the KB files
CoreFile(id) == [dir |-> "core", name |-> id]

CustomFile(id) == [dir |-> "custom", name |-> id]

\* data/roles_kb.json, read-only
KB_CORE ==
    << [id |-> [slug |-> <<"f", "_", "e">>, stamp |-> 0], title |-> <<"f", "e">>,
        aliases |-> << <<"o", "e">> >>,
        file |-> CoreFile([slug |-> <<"f", "_", "e">>, stamp |-> 0]),
        created_at |-> NoneTime],
       [id |-> [slug |-> <<"g", "_", "i">>, stamp |-> 0], title |-> <<"g", "i">>,
        aliases |-> <<>>,
        file |-> CoreFile([slug |-> <<"g", "_", "i">>, stamp |-> 0]),
        created_at |-> NoneTime] >>

FoundingEngineerId == [slug |-> <<"f", "_", "e">>, stamp |-> 0]

\* the curated file as shipped, or absent (read as an empty collection)
CoreFiles == {KB_CORE, <<>>}

VARIABLES
    frontend,     \* which front end serves the session: app/ui.py or app/tabs
    session,      \* number of "Plan Hiring" runs so far; 0: last_state is None
    user_prompt,  \* AppState.user_prompt, as the titles extraction yields for it
    roles,        \* AppState.roles of st.session_state["last_state"]
    plan_stale,   \* global_constraints["plan_stale"]
    kb_core,      \* content of data/roles_kb.json
    kb_custom,    \* content of data/roles_kb_custom.json
    templates,    \* files of data/role_knowledge_custom/
    clock,        \* datetime.utcnow() in whole seconds
    disk,         \* the files of data/ as texts, for the step-by-step writer
    writer,       \* the process inside save_custom_role: position and locals
    loaded,       \* what the load_kb() of the last step returned or raised
    match_kb,     \* the kb argument of a match_one call
    match_phrase, \* its phrase argument, <<>> before the call
    match_result, \* the MatchResult it returned
    prompt,       \* the prompt handed to extraction, as its words and marks
    extraction,   \* one extraction: who called, the environment, the outcome
    savers,       \* the save_custom_role calls of two operators: position and locals
    budget,       \* global_constraints use_llm, llm_cap, llm_calls, the key, the roles
    requests      \* the chat completion requests of the last handler, in order

\* the session and the KB as parsed values
svars == <<frontend, session, user_prompt, roles, plan_stale, kb_core, kb_custom, templates>>

\* the files as texts and the processes that write and read them
fvars == <<disk, writer, loaded>>

\* one call of the matcher on its own
mvars == <<match_kb, match_phrase, match_result>>

\* the variables of the components that are checked on their own
\* one extraction of phrases from a prompt on its own
evars == <<prompt, extraction>>

\* the accounting of LLM calls on its own
bvars == <<budget, requests>>

xvars == <<mvars, evars, savers, bvars>>

vars == <<svars, clock, fvars, xvars>>

\* ------------------------------------------------------------ load_kb
_augment(rec) ==
    [id |-> rec.id, title |-> rec.title, aliases |-> rec.aliases, file |-> rec.file,
     match_corpus |-> <<rec.title>> \o rec.aliases,
     is_custom |-> (rec.file.dir = "custom"),
     created_at |-> rec.created_at]

load_kb(core, custom) ==
    LET kb == core \o custom
    IN  [i \in DOMAIN kb |-> _augment(kb[i])]

\* next((r for r in kb if r["id"] == rid), None) as an index, 0 for None
FirstIndexOfId(kb, rid) ==
    IF \E i \in DOMAIN kb : kb[i].id = rid
    THEN CHOOSE i \in DOMAIN kb : kb[i].id = rid /\ \A j \in 1 .. i - 1 : kb[j].id /= rid
    ELSE 0

\* rec["file"] if rec else None
FileOfId(kb, rid) ==
    IF FirstIndexOfId(kb, rid) = 0 THEN NoneFile ELSE kb[FirstIndexOfId(kb, rid)].file

\* ------------------------------------------------------------ match_one
\* the (normalized text, record) pairs of every record's match_corpus, the
\* record given by its index in kb
RECURSIVE Choices(_, _)
Choices(kb, i) ==
    IF i > Len(kb) THEN <<>>
    ELSE [c \in DOMAIN kb[i].match_corpus |-> [txt |-> kb[i].match_corpus[c], rec |-> i]]
            \o Choices(kb, i + 1)

SetMax(S) == CHOOSE x \in S : \A y \in S : x >= y

SetMin(S) == CHOOSE x \in S : \A y \in S : x <= y

\* F(v) with v evaluated once (a LET definition is expanded at every use)
With(v, F(_)) == CHOOSE r \in {F(x) : x \in {v}} : TRUE

\* process.extract(phrase, texts, scorer=token_set_ratio, limit): the best
\* `limit` choices as (score, index), by descending score, equal scores by index
Extract(phrase, choices, limit) ==
    With([c \in DOMAIN choices |-> token_set_ratio(phrase, choices[c].txt)], LAMBDA sc :
    With([c \in DOMAIN choices |->
            1 + Cardinality({d \in DOMAIN choices :
                                sc[d] > sc[c] \/ (sc[d] = sc[c] /\ d < c)})], LAMBDA rank :
        [p \in 1 .. Min2(limit, Len(choices)) |->
            LET c == CHOOSE d \in DOMAIN choices : rank[d] = p
            IN  [s |-> sc[c], idx |-> c]]))

\* agg sorted by ascending score
Aggregate_ascending(kb, choices, topk, keep) ==
    With([p \in DOMAIN topk |-> kb[choices[topk[p].idx].rec].id], LAMBDA idAt :
    With({idAt[p] : p \in DOMAIN topk}, LAMBDA ids :
    With([rid \in ids |-> SetMax({topk[p].s : p \in {q \in DOMAIN topk : idAt[q] = rid}})],
         LAMBDA agg :
    With([rid \in ids |-> SetMin({p \in DOMAIN topk : idAt[p] = rid})], LAMBDA first :
    With([rid \in ids |->
            1 + Cardinality({r \in ids :
                    agg[r] < agg[rid] \/ (agg[r] = agg[rid] /\ first[r] < first[rid])})],
         LAMBDA rank :
        [p \in 1 .. Min2(keep, Cardinality(ids)) |->
            LET rid == CHOOSE r \in ids : rank[r] = p
            IN  [rid |-> rid, sc |-> agg[rid]]])))))

\* agg[rid] = float(s): the score of the last top-k entry of the id, not the
\* maximum
Aggregate_last_seen(kb, choices, topk, keep) ==
    With([p \in DOMAIN topk |-> kb[choices[topk[p].idx].rec].id], LAMBDA idAt :
    With({idAt[p] : p \in DOMAIN topk}, LAMBDA ids :
    With([rid \in ids |-> topk[SetMax({q \in DOMAIN topk : idAt[q] = rid})].s],
         LAMBDA agg :
    With([rid \in ids |-> SetMin({p \in DOMAIN topk : idAt[p] = rid})], LAMBDA first :
    With([rid \in ids |->
            1 + Cardinality({r \in ids :
                    agg[r] > agg[rid] \/ (agg[r] = agg[rid] /\ first[r] < first[rid])})],
         LAMBDA rank :
        [p \in 1 .. Min2(keep, Cardinality(ids)) |->
            LET rid == CHOOSE r \in ids : rank[r] = p
            IN  [rid |-> rid, sc |-> agg[rid]]])))))

\* agg sorted by descending score with equal scores in the opposite order
Aggregate_ties_reversed(kb, choices, topk, keep) ==
    With([p \in DOMAIN topk |-> kb[choices[topk[p].idx].rec].id], LAMBDA idAt :
    With({idAt[p] : p \in DOMAIN topk}, LAMBDA ids :
    With([rid \in ids |-> SetMax({topk[p].s : p \in {q \in DOMAIN topk : idAt[q] = rid}})],
         LAMBDA agg :
    With([rid \in ids |-> SetMin({p \in DOMAIN topk : idAt[p] = rid})], LAMBDA first :
    With([rid \in ids |->
            1 + Cardinality({r \in ids :
                    agg[r] > agg[rid] \/ (agg[r] = agg[rid] /\ first[r] > first[rid])})],
         LAMBDA rank :
        [p \in 1 .. Min2(keep, Cardinality(ids)) |->
            LET rid == CHOOSE r \in ids : rank[r] = p
            IN  [rid |-> rid, sc |-> agg[rid]]])))))

\* agg (max score per role id over topk) sorted by descending score, equal
\* scores in the order the ids were first inserted; at most `keep` of them
Aggregate(kb, choices, topk, keep) ==
    With([p \in DOMAIN topk |-> kb[choices[topk[p].idx].rec].id], LAMBDA idAt :
    With({idAt[p] : p \in DOMAIN topk}, LAMBDA ids :
    With([rid \in ids |-> SetMax({topk[p].s : p \in {q \in DOMAIN topk : idAt[q] = rid}})],
         LAMBDA agg :
    With([rid \in ids |-> SetMin({p \in DOMAIN topk : idAt[p] = rid})], LAMBDA first :
    With([rid \in ids |->
            1 + Cardinality({r \in ids :
                    agg[r] > agg[rid] \/ (agg[r] = agg[rid] /\ first[r] < first[rid])})],
         LAMBDA rank :
        [p \in 1 .. Min2(keep, Cardinality(ids)) |->
            LET rid == CHOOSE r \in ids : rank[r] = p
            IN  [rid |-> rid, sc |-> agg[rid]]])))))

MatchResult(status, role_id, title, file, confidence, suggestions) ==
    [status |-> status, role_id |-> role_id, title |-> title, file |-> file,
     confidence |-> confidence, suggestions |-> suggestions]

\* the suggestion dicts of the ranked (role id, score) pairs
SuggestionsOf(kb, top3_ids) ==
    [p \in DOMAIN top3_ids |->
        LET rec == kb[FirstIndexOfId(kb, top3_ids[p].rid)]
        IN  [role_id |-> top3_ids[p].rid, title |-> rec.title, score |-> top3_ids[p].sc,
             is_custom |-> rec.is_custom, created_at |-> rec.created_at]]

\* match_one returning unknown for every weak best score, suggestions or not
match_one_weak(phrase, kb, fuzzy_threshold) ==
    With(Choices(kb, 1), LAMBDA choices :
    With(Extract(phrase, choices, TopKLimit), LAMBDA topk :
    With(Aggregate(kb, choices, topk, TopSuggestions), LAMBDA top3_ids :
    With(SuggestionsOf(kb, top3_ids), LAMBDA suggestions :
        LET best_score == IF Len(top3_ids) > 0 THEN top3_ids[1].sc ELSE 0
        IN  IF Len(choices) = 0 \/ Len(topk) = 0
            THEN MatchResult("unknown", NoneId, phrase, NoneFile, 0, <<>>)
            ELSE IF best_score * 100 < (fuzzy_threshold - WeakMargin) * ScoreScale
            THEN MatchResult("unknown", NoneId, phrase, NoneFile, best_score, <<>>)
            ELSE MatchResult("suggest", NoneId, phrase, NoneFile, best_score, suggestions)))))

\* match_one without the early returns for an empty KB
match_one_noguard(phrase, kb, fuzzy_threshold) ==
    With(Choices(kb, 1), LAMBDA choices :
    With(Extract(phrase, choices, TopKLimit), LAMBDA topk :
    With(Aggregate(kb, choices, topk, TopSuggestions), LAMBDA top3_ids :
    With(SuggestionsOf(kb, top3_ids), LAMBDA suggestions :
        LET best_score == IF Len(top3_ids) > 0 THEN top3_ids[1].sc ELSE 0
        IN  MatchResult("suggest", NoneId, phrase, NoneFile, best_score, suggestions)))))

\* match_one with the auto-match branch: a best score at or above the
\* threshold returns status match with the id and file of the best record
match_one_auto(phrase, kb, fuzzy_threshold) ==
    With(Choices(kb, 1), LAMBDA choices :
    With(Extract(phrase, choices, TopKLimit), LAMBDA topk :
    With(Aggregate(kb, choices, topk, TopSuggestions), LAMBDA top3_ids :
    With(SuggestionsOf(kb, top3_ids), LAMBDA suggestions :
        LET best_score == IF Len(top3_ids) > 0 THEN top3_ids[1].sc ELSE 0
        IN  IF Len(choices) = 0 \/ Len(topk) = 0
            THEN MatchResult("unknown", NoneId, phrase, NoneFile, 0, <<>>)
            ELSE IF best_score * 100 >= fuzzy_threshold * ScoreScale /\ Len(suggestions) > 0
            THEN MatchResult("match", suggestions[1].role_id, suggestions[1].title,
                             FileOfId(kb, suggestions[1].role_id), best_score, suggestions)
            ELSE MatchResult("suggest", NoneId, phrase, NoneFile, best_score, suggestions)))))

\* match_one carrying the id and file of an exact hit through in status suggest
match_one_exact(phrase, kb, fuzzy_threshold) ==
    With(Choices(kb, 1), LAMBDA choices :
    With(Extract(phrase, choices, TopKLimit), LAMBDA topk :
    With(Aggregate(kb, choices, topk, TopSuggestions), LAMBDA top3_ids :
    With(SuggestionsOf(kb, top3_ids), LAMBDA suggestions :
        LET best_score == IF Len(top3_ids) > 0 THEN top3_ids[1].sc ELSE 0
        IN  IF Len(choices) = 0 \/ Len(topk) = 0
            THEN MatchResult("unknown", NoneId, phrase, NoneFile, 0, <<>>)
            ELSE IF best_score = ScoreScale /\ Len(suggestions) > 0
            THEN MatchResult("suggest", suggestions[1].role_id, phrase,
                             FileOfId(kb, suggestions[1].role_id), best_score, suggestions)
            ELSE MatchResult("suggest", NoneId, phrase, NoneFile, best_score, suggestions)))))


match_one(phrase, kb, fuzzy_threshold) ==
    With(Choices(kb, 1), LAMBDA choices :
    With(Extract(phrase, choices, TopKLimit), LAMBDA topk :
    With(Aggregate(kb, choices, topk, TopSuggestions), LAMBDA top3_ids :
    With(SuggestionsOf(kb, top3_ids), LAMBDA suggestions :
        LET best_score == IF Len(top3_ids) > 0 THEN top3_ids[1].sc ELSE 0
        IN  IF Len(choices) = 0
            THEN MatchResult("unknown", NoneId, phrase, NoneFile, 0, <<>>)
            ELSE IF Len(topk) = 0
            THEN MatchResult("unknown", NoneId, phrase, NoneFile, 0, <<>>)
            ELSE IF best_score * 100 < (fuzzy_threshold - WeakMargin) * ScoreScale
                    /\ Len(suggestions) = 0
            THEN MatchResult("unknown", NoneId, phrase, NoneFile, best_score, <<>>)
            ELSE MatchResult("suggest", NoneId, phrase, NoneFile, best_score, suggestions)))))

\* ------------------------------------------------------------ RoleSpec
RoleSpec(role_id, file, title, status, confidence, confidence_source, suggestions) ==
    [role_id |-> role_id, file |-> file, title |-> title, status |-> status,
     confidence |-> confidence, confidence_source |-> confidence_source,
     suggestions |-> suggestions]

\* ------------------------------------------------------------ node_intake
\* m = match_one(title, kb, fuzzy_threshold=88) for every phrase, computed
\* once per KB
MatchTable(kb) == [ph \in Phrases |-> match_one(ph, kb, DefaultFuzzyThreshold)]

\* node_intake promoting a phrase whose confidence reaches the threshold to
\* status match on its best suggestion
node_intake_promote(rs, titles, kb, matches) ==
    LET results == [t \in DOMAIN titles |->
            LET m == matches[titles[t]]
            IN  IF m.confidence * 100 >= DefaultFuzzyThreshold * ScoreScale
                   /\ Len(m.suggestions) > 0
                THEN RoleSpec(m.suggestions[1].role_id,
                              FileOfId(kb, m.suggestions[1].role_id),
                              m.suggestions[1].title, "match", m.confidence, "none", <<>>)
                ELSE RoleSpec(m.role_id, m.file, m.title, m.status, m.confidence, "none",
                              m.suggestions)]
        nothing == \/ Len(results) = 0
                   \/ \A t \in DOMAIN results :
                        results[t].status /= "match" /\ Len(results[t].suggestions) = 0
        fb == FirstIndexOfId(kb, FoundingEngineerId)
    IN  IF Len(rs) > 0 THEN rs
        ELSE IF nothing /\ fb /= 0
        THEN Append(results, RoleSpec(kb[fb].id, kb[fb].file, kb[fb].title, "match",
                                      FullConfidence, "none", <<>>))
        ELSE results

\* node_intake without the early exit: every run parses the prompt again
node_intake_reparse(rs, titles, kb, matches) ==
    LET results == [t \in DOMAIN titles |->
            LET m == matches[titles[t]]
            IN  RoleSpec(m.role_id, m.file, m.title, m.status, m.confidence, "none",
                         m.suggestions)]
        nothing == \/ Len(results) = 0
                   \/ \A t \in DOMAIN results :
                        results[t].status /= "match" /\ Len(results[t].suggestions) = 0
        fb == FirstIndexOfId(kb, FoundingEngineerId)
    IN  IF nothing /\ fb /= 0
        THEN Append(results, RoleSpec(kb[fb].id, kb[fb].file, kb[fb].title, "match",
                                      FullConfidence, "none", <<>>))
        ELSE results

\* node_intake on a state with roles rs, whose prompt yields `titles`; kb is
\* load_kb() and matches is MatchTable(kb)
node_intake(rs, titles, kb, matches) ==
    LET results == [t \in DOMAIN titles |->
            LET m == matches[titles[t]]
            IN  RoleSpec(m.role_id, m.file, m.title, m.status, m.confidence, "none",
                         m.suggestions)]
        nothing == \/ Len(results) = 0
                   \/ \A t \in DOMAIN results :
                        results[t].status /= "match" /\ Len(results[t].suggestions) = 0
        fb == FirstIndexOfId(kb, FoundingEngineerId)
    IN  IF Len(rs) > 0 THEN rs
        ELSE IF nothing /\ fb /= 0
        THEN Append(results, RoleSpec(kb[fb].id, kb[fb].file, kb[fb].title, "match",
                                      FullConfidence, "none", <<>>))
        ELSE results

\* graph.invoke(state): intake, then profile, jd and plan, which leave the
\* represented fields of the roles alone
invoke_graph(rs, titles, core, custom) ==
    With(load_kb(core, custom), LAMBDA kb : node_intake(rs, titles, kb, MatchTable(kb)))

\* save_custom_role indexing the template under the curated directory
save_custom_role_core_dir(title, now, custom, tpls) ==
    LET final_slug == [slug |-> Slugify(title), stamp |-> now]
        tpl == [id |-> final_slug, title |-> title, created_at |-> now]
        entry == [id |-> final_slug, title |-> title, aliases |-> <<>>,
                  file |-> CoreFile(final_slug), created_at |-> now]
    IN  [saved |-> [id |-> final_slug, file |-> CustomFile(final_slug), title |-> title],
         templates |-> {t \in tpls : t.id /= final_slug} \cup {tpl},
         kb_custom |-> Append(custom, entry)]

\* ------------------------------------------------------------ save_custom_role
\* the id, the template file and the index entry of one save at second `now`
save_custom_role(title, now, custom, tpls) ==
    LET final_slug == [slug |-> Slugify(title), stamp |-> now]
        tpl == [id |-> final_slug, title |-> title, created_at |-> now]
        entry == [id |-> final_slug, title |-> title, aliases |-> <<>>,
                  file |-> CustomFile(final_slug), created_at |-> now]
    IN  [saved |-> [id |-> final_slug, file |-> CustomFile(final_slug), title |-> title],
         templates |-> {t \in tpls : t.id /= final_slug} \cup {tpl},
         kb_custom |-> Append(custom, entry)]

\* ------------------------------------------------------------ _suggest_from_kb
_score_title(query, candidate, aliases) ==
    LET cands == <<candidate>> \o aliases
    IN  IF Len(query) = 0 THEN 0
        ELSE SetMax({0} \cup {SequenceRatio(JoinWords(query), JoinWords(cands[c])) :
                                c \in {d \in DOMAIN cands : Len(cands[d]) > 0}})

_suggest_from_kb(title, exclude_ids, top_k, kb0) ==
    With(kb0, LAMBDA kb :
    With([i \in DOMAIN kb |-> _score_title(title, kb[i].title, kb[i].aliases)], LAMBDA sc :
    With({i \in DOMAIN kb : kb[i].id /= NoneId /\ kb[i].id \notin exclude_ids /\ sc[i] > 0},
         LAMBDA kept :
    With([i \in kept |->
            1 + Cardinality({j \in kept : sc[j] > sc[i] \/ (sc[j] = sc[i] /\ j < i)})],
         LAMBDA rank :
        [p \in 1 .. Min2(top_k, Cardinality(kept)) |->
            LET i == CHOOSE j \in kept : rank[j] = p
            IN  [role_id |-> kb[i].id, title |-> kb[i].title, score |-> sc[i],
                 is_custom |-> (kb[i].file.name.stamp /= 0),
                 created_at |-> kb[i].created_at]]))))

\* ------------------------------------------------------------ what the resolver shows
Unresolved(rs) == {i \in DOMAIN rs : rs[i].status \in {"suggest", "unknown"}}

Matched(rs) == {i \in DOMAIN rs : rs[i].status = "match"}

\* role ids finalized on the roles other than idx (idx = 0: on any role)
UsedIds(rs, idx) ==
    {rs[i].role_id : i \in {j \in Matched(rs) : j /= idx /\ rs[j].role_id /= NoneId}}

\* unresolved_role_panel: the raw suggestions without the ids used elsewhere
PanelSuggestions(rs, idx) ==
    SelectSeq(rs[idx].suggestions, LAMBDA s : s.role_id \notin UsedIds(rs, idx))

\* ui.py: the radio offers the raw suggestions of the role
LegacySuggestions(rs, idx) == rs[idx].suggestions

\* ui.py keys the options by "<title> (score <x.xx>)"; a later suggestion with
\* the same label replaces an earlier one in the dict
OptionLabel(s) == <<s.title, (s.score + 50) \div 100>>

LegacyChosen(sugg, k) ==
    sugg[SetMax({j \in DOMAIN sugg : OptionLabel(sugg[j]) = OptionLabel(sugg[k])})]

DisplayedSuggestions(fe, rs, idx) ==
    IF fe = "tabs" THEN PanelSuggestions(rs, idx) ELSE LegacySuggestions(rs, idx)

\* ------------------------------------------------------------ the patches of a RoleSpec
\* "Use selected suggestion" keeping the title the operator typed
PanelUseSuggestion_typed(role, s, kb) ==
    [role EXCEPT !.role_id = s.role_id,
                 !.status = "match",
                 !.confidence = NoConfidence,
                 !.confidence_source = "manual",
                 !.file = FileOfId(kb, s.role_id),
                 !.suggestions = <<>>]

\* "Use selected suggestion" leaving the suggestions on the role
PanelUseSuggestion_keep(role, s, kb) ==
    LET rec == FirstIndexOfId(kb, s.role_id)
    IN  [role EXCEPT !.role_id = s.role_id,
                     !.title = IF rec /= 0 THEN kb[rec].title ELSE s.title,
                     !.status = "match",
                     !.confidence = NoConfidence,
                     !.confidence_source = "manual",
                     !.file = FileOfId(kb, s.role_id)]

\* unresolved_role_panel, "Use selected suggestion"
PanelUseSuggestion(role, s, kb) ==
    LET rec == FirstIndexOfId(kb, s.role_id)
    IN  [role EXCEPT !.role_id = s.role_id,
                     !.title = IF rec /= 0 THEN kb[rec].title ELSE s.title,
                     !.status = "match",
                     !.confidence = NoConfidence,
                     !.confidence_source = "manual",
                     !.file = FileOfId(kb, s.role_id),
                     !.suggestions = <<>>]

\* ui.py, "Use selected suggestion"
LegacyUseSuggestion(role, chosen, kb) ==
    [role EXCEPT !.role_id = chosen.role_id,
                 !.title = chosen.title,
                 !.status = "match",
                 !.confidence = chosen.score,
                 !.file = FileOfId(kb, chosen.role_id),
                 !.suggestions = <<>>]

\* unresolved_role_panel, "Create this custom role"
PanelCreateRole(role, saved) ==
    [role EXCEPT !.role_id = saved.id, !.title = saved.title, !.file = saved.file,
                 !.status = "match", !.confidence = NoConfidence,
                 !.confidence_source = "manual", !.suggestions = <<>>]

\* ui.py, "Create new role"
LegacyCreateRole(role, saved) ==
    [role EXCEPT !.role_id = saved.id, !.title = saved.title, !.file = saved.file,
                 !.status = "match", !.confidence = FullConfidence,
                 !.suggestions = <<>>]

\* matched_role_editor, "Save as custom template"
EditorSaveTemplate(role, saved) ==
    [role EXCEPT !.role_id = saved.id, !.title = saved.title, !.file = saved.file,
                 !.status = "match", !.confidence = NoConfidence,
                 !.confidence_source = "manual"]

\* ui.py, "Save as custom template"
LegacySaveTemplate(role, saved) ==
    [role EXCEPT !.role_id = saved.id, !.title = saved.title, !.file = saved.file,
                 !.status = "match", !.confidence = FullConfidence]

\* "Apply changes" sending a role whose title changed back to resolution
ApplyChanges_reopen(role, title) ==
    [role EXCEPT !.title = title,
                 !.status = IF title /= role.title THEN "suggest" ELSE role.status]

\* "Apply changes for this plan" of either front end (title; the skills,
\* mission and seniority of a RoleSpec are not represented)
ApplyChanges(role, title) == [role EXCEPT !.title = title]

\* ------------------------------------------------------------ the files of data/
\* A file is absent or holds a text; a text is a sequence of chunks, what
\* json.dumps produces being an opening chunk, the value and a closing chunk.
Absent == [exists |-> FALSE, text |-> <<>>]

File(text) == [exists |-> TRUE, text |-> text]

\* json.dumps(value)
Dumps(value) ==
    << [k |-> "open", v |-> <<>>], [k |-> "data", v |-> value], [k |-> "close", v |-> <<>>] >>

\* json.loads(text): the value, or not ok (JSONDecodeError) for a text that is
\* not a complete document
Loads(text) ==
    IF Len(text) = 3 /\ text[1].k = "open" /\ text[2].k = "data" /\ text[3].k = "close"
    THEN [ok |-> TRUE, value |-> text[2].v]
    ELSE [ok |-> FALSE, value |-> <<>>]

\* KB_CORE_PATH and KB_CUSTOM_PATH
KB_CORE_PATH == [dir |-> "kb", name |-> [slug |-> <<"core">>, stamp |-> 0]]

KB_CUSTOM_PATH == [dir |-> "kb", name |-> [slug |-> <<"custom">>, stamp |-> 0]]

\* the names tempfile.NamedTemporaryFile can give
TempNames == {[dir |-> "tmp", name |-> [slug |-> <<>>, stamp |-> n]] : n \in 1 .. MaxTmp}

\* the template files save_custom_role can write
TemplatePaths ==
    {CustomFile([slug |-> Slugify(t), stamp |-> c]) : t \in Phrases, c \in 1 .. MaxClock}

FinalPaths == {KB_CORE_PATH, KB_CUSTOM_PATH} \cup TemplatePaths

DiskNames == FinalPaths \cup TempNames

\* reading a file with a malformed text as an empty collection
read_json_lenient(f) ==
    IF f.exists /\ Loads(f.text).ok THEN Loads(f.text) ELSE [ok |-> TRUE, value |-> <<>>]

\* path.read_text() + json.loads if path.exists() else []
read_json(f) == IF f.exists THEN Loads(f.text) ELSE [ok |-> TRUE, value |-> <<>>]

\* load_kb() on the files of d: the merged records, or not ok when a
\* json.loads raised
load_kb_disk(d) ==
    LET core == read_json(d[KB_CORE_PATH])
        custom == read_json(d[KB_CUSTOM_PATH])
    IN  IF core.ok /\ custom.ok
        THEN [ok |-> TRUE, kb |-> load_kb(core.value, custom.value)]
        ELSE [ok |-> FALSE, kb |-> <<>>]

\* the last step was no load_kb()
NoLoad == [ok |-> TRUE, kb |-> <<>>]

\* _atomic_write writing the final path in place, without a temporary file
TempFor_inplace(d, path) == path

\* NamedTemporaryFile(dir=path.parent): a name no file of the directory has
TempFor(d, path) ==
    CHOOSE t \in TempNames :
        /\ ~d[t].exists
        /\ \A u \in TempNames : ~d[u].exists => u.name.stamp >= t.name.stamp

\* the locals of the writer: pc is its position, stage the file it writes
\* (the template, then the index), tmp the temporary file, old the content
\* of path when the write began
Writer(pc, stage, title, now, path, text, tmp, old) ==
    [pc |-> pc, stage |-> stage, title |-> title, now |-> now, path |-> path,
     text |-> text, tmp |-> tmp, old |-> old]

IdleWriter == Writer("idle", "none", <<>>, 0, KB_CUSTOM_PATH, <<>>, KB_CUSTOM_PATH, Absent)

\* positions at which the writer is inside save_custom_role
Running == {"open", "write", "closed", "read_index"}

\* no call of the matcher is under way
NoMatchCall ==
    /\ match_kb = <<>>
    /\ match_phrase = <<>>
    /\ match_result = MatchResult("unknown", NoneId, <<>>, NoneFile, 0, <<>>)

\* ------------------------------------------------------------ two operators saving
\* save_custom_role run by two sessions at once on the same data/ directory.
\* A rename is atomic and a temporary file has a name of its own, so a call
\* is seen by the other one at three points: the template file appears, the
\* index is read, the index is replaced.
Operators == {1, 2}

Saver(pc, title, now, custom) == [pc |-> pc, title |-> title, now |-> now, custom |-> custom]

IdleSaver == Saver("idle", <<>>, 0, <<>>)

NoSavers == savers = [op \in Operators |-> IdleSaver]

\* ------------------------------------------------------------ the LLM call budget
\* global_constraints as far as the budget goes, the OPENAI_API_KEY of the
\* environment, and of the roles whether there are any and how many are
\* matched; started is FALSE while last_state is None
Budget(started, use_llm, have_key, llm_cap, llm_calls, has_roles, matched) ==
    [started |-> started, use_llm |-> use_llm, have_key |-> have_key, llm_cap |-> llm_cap,
     llm_calls |-> llm_calls, has_roles |-> has_roles, matched |-> matched]

NoBudget ==
    /\ budget = Budget(FALSE, FALSE, FALSE, 1, 0, FALSE, 0)
    /\ requests = <<>>

\* ------------------------------------------------------------ extraction
\* A prompt is the sequence of its words and punctuation marks; a phrase is
\* a sequence of words.
\* _SPLIT: the marks and the conjunctions a prompt is split at
SplitTokens == {",", ".", "?", "!", ";", "/", "|", "and", "or", "plus", "with"}

_HEAD_NOUNS ==
    {"engineer", "developer", "intern", "designer", "analyst", "manager",
     "scientist", "architect", "lead", "specialist", "pm", "producer",
     "marketer", "researcher", "administrator", "technician", "consultant"}

_STOP_HEAD ==
    {"i", "we", "you", "they", "to", "a", "an", "the", "my", "our", "your",
     "need", "needs", "needing", "hire", "hiring", "looking", "search", "searching",
     "recruit", "recruiting", "open", "opening", "want", "wanted",
     "someone", "help", "please", "thanks", "thank", "thankyou", "thank-you",
     "can", "could", "would"}

\* max_len of _clean_head_tokens
MaxPhraseTokens == 7

\* the words short enough to borrow a head noun
ShortPhraseTokens == 2

\* str.lower() on the words that occur
Lower(tok) == IF tok = "QA" THEN "qa" ELSE tok

\* the marks _normalize turns into blanks
NormalizeBlanks == {",", ".", "?", "!", ";", "|", "&", ":"}

\* _normalize on a segment: lower case, marks other than / # + - dropped
_normalize(toks) ==
    SelectSeq([i \in DOMAIN toks |-> Lower(toks[i])], LAMBDA t : t \notin NormalizeBlanks)

\* _SPLIT.split(prompt) without its blank segments; seg is the segment so far
RECURSIVE SplitParts(_, _)
SplitParts(toks, seg) ==
    IF Len(toks) = 0 THEN (IF Len(seg) = 0 THEN <<>> ELSE <<seg>>)
    ELSE IF Lower(Head(toks)) \in SplitTokens
    THEN (IF Len(seg) = 0 THEN <<>> ELSE <<seg>>) \o SplitParts(Tail(toks), <<>>)
    ELSE SplitParts(Tail(toks), Append(seg, Head(toks)))

IsPrefix(pre, toks) == Len(pre) <= Len(toks) /\ SubSeq(toks, 1, Len(pre)) = pre

\* re.sub(r"\b(can you help|please|thanks|thank you)\b", " ", norm)
RECURSIVE RemovePolite(_)
RemovePolite(toks) ==
    IF Len(toks) = 0 THEN <<>>
    ELSE IF IsPrefix(<<"can", "you", "help">>, toks) THEN RemovePolite(SubSeq(toks, 4, Len(toks)))
    ELSE IF Head(toks) \in {"please", "thanks"} THEN RemovePolite(Tail(toks))
    ELSE IF IsPrefix(<<"thank", "you">>, toks) THEN RemovePolite(SubSeq(toks, 3, Len(toks)))
    ELSE <<Head(toks)>> \o RemovePolite(Tail(toks))

RECURSIVE DropStopHead(_)
DropStopHead(toks) ==
    IF Len(toks) > 0 /\ Head(toks) \in _STOP_HEAD THEN DropStopHead(Tail(toks)) ELSE toks

_clean_head_tokens(text, max_len) ==
    LET toks == DropStopHead(text)
    IN  IF Len(toks) > max_len THEN SubSeq(toks, Len(toks) - max_len + 1, Len(toks)) ELSE toks

\* None of head_noun
NoNoun == ""

head_noun(s) ==
    IF Len(s) > 0 /\ s[Len(s)] \in _HEAD_NOUNS THEN s[Len(s)] ELSE NoNoun

\* the loop of _attach_missing_head_noun from candidate i on
RECURSIVE AttachFrom(_, _, _)
AttachFrom(cands, i, last_head) ==
    IF i > Len(cands) THEN <<>>
    ELSE LET c == cands[i]
             ahead == IF i + 1 <= Len(cands) THEN cands[i + 1] ELSE <<>>
             noun == IF head_noun(ahead) /= NoNoun THEN head_noun(ahead) ELSE last_head
             base == IF Len(c) <= ShortPhraseTokens /\ head_noun(c) = NoNoun /\ noun /= NoNoun
                     THEN Append(c, noun) ELSE c
             h == head_noun(base)
         IN  <<base>> \o AttachFrom(cands, i + 1, IF h /= NoNoun THEN h ELSE last_head)

_attach_missing_head_noun(cands) == AttachFrom(cands, 1, NoNoun)

\* the candidates in order, each kept at its first occurrence
Dedupe(cands) ==
    SelectSeq([i \in DOMAIN cands |->
                  IF \E j \in 1 .. i - 1 : cands[j] = cands[i] THEN <<>> ELSE cands[i]],
              LAMBDA c : Len(c) > 0)

\* step 2 of _heuristic_titles_from_prompt: the cleaned segments that are kept
CleanParts(parts) ==
    SelectSeq([i \in DOMAIN parts |->
                  _clean_head_tokens(RemovePolite(_normalize(parts[i])), MaxPhraseTokens)],
              LAMBDA cand : 1 <= Len(cand) /\ Len(cand) <= MaxPhraseTokens)

_heuristic_titles_from_prompt(p) ==
    LET cands == CleanParts(SplitParts(p, <<>>))
        whole == _clean_head_tokens(_normalize(p), MaxPhraseTokens)
    IN  IF Len(cands) = 0 THEN (IF Len(whole) > 0 THEN <<whole>> ELSE <<>>)
        ELSE Dedupe(_attach_missing_head_noun(cands))

\* what the chat completion gives extract_roles_with_llm: an exception of
\* both SDK paths, a content that is not the JSON asked for, or roles by title
Reply(kind, titles) == [kind |-> kind, titles |-> titles]

\* no request is made
NoReply == Reply("none", <<>>)

\* extract_roles_with_llm letting the exception of the request through
extract_roles_with_llm_unguarded(have_key, reply) ==
    IF ~have_key THEN [raised |-> FALSE, roles |-> <<>>, used |-> FALSE]
    ELSE IF reply.kind = "raises" THEN [raised |-> TRUE, roles |-> <<>>, used |-> FALSE]
    ELSE IF reply.kind = "malformed" THEN [raised |-> FALSE, roles |-> <<>>, used |-> FALSE]
    ELSE [raised |-> FALSE, roles |-> SelectSeq(reply.titles, LAMBDA t : Len(t) > 0),
          used |-> TRUE]

\* (roles, meta) of extract_roles_with_llm: roles by their titles, meta["used"]
extract_roles_with_llm(have_key, reply) ==
    IF ~have_key THEN [raised |-> FALSE, roles |-> <<>>, used |-> FALSE]
    ELSE IF reply.kind \in {"raises", "malformed"}
    THEN [raised |-> FALSE, roles |-> <<>>, used |-> FALSE]
    ELSE [raised |-> FALSE, roles |-> SelectSeq(reply.titles, LAMBDA t : Len(t) > 0),
          used |-> TRUE]

\* use_llm of extract_candidate_phrases: "none" for None
should_use_llm(use_llm, have_key) == IF use_llm /= "none" THEN use_llm = "true" ELSE have_key

extract_candidate_phrases(p, use_llm, have_key, reply) ==
    LET r == extract_roles_with_llm(have_key, reply)
    IN  IF should_use_llm(use_llm, have_key) /\ ~r.raised /\ Len(r.roles) > 0
        THEN [raised |-> FALSE, titles |-> r.roles]
        ELSE [raised |-> FALSE, titles |-> _heuristic_titles_from_prompt(p)]

\* node_intake, steps 1 to 3: the titles it goes on with
intake_titles(p, use_llm_flag, have_key, remaining, reply) ==
    LET r == extract_roles_with_llm(have_key, reply)
    IN  IF use_llm_flag /\ have_key /\ remaining > 0
        THEN IF r.raised THEN [raised |-> TRUE, titles |-> <<>>]
             ELSE IF Len(r.roles) > 0 THEN [raised |-> FALSE, titles |-> r.roles]
             ELSE extract_candidate_phrases(p, "false", have_key, NoReply)
        ELSE extract_candidate_phrases(p, "false", have_key, NoReply)

\* ------------------------------------------------------------ extraction on its own
MaxPromptLen == 3
MaxLlmRoles == 2

PromptTokens == {"backend", "QA", "engineer", "engineers", "we", ",", "and"}

\* "backend, frontend, and QA engineers"
ListOfModifiers == <<"backend", ",", "frontend", ",", "and", "QA", "engineers">>

NamedPrompts ==
    { ListOfModifiers,
      <<"backend", ",", "frontend", "and", "QA", "engineer">>,
      <<"we", "need", "a", "senior", "staff", "principal", "distinguished", "backend",
        "platform", "infrastructure", "engineer", "please">>,
      <<"thank", "you">>,
      <<"can", "you", "help", "hire", "a", "designer", "?">> }

Prompts == NamedPrompts \cup UNION {[1 .. n -> PromptTokens] : n \in 0 .. MaxPromptLen}

\* titles of the roles of a reply: one of two words, a blank one, one of
\* eight words
LlmTitles ==
    { <<"qa", "engineer">>, <<>>,
      <<"senior", "staff", "principal", "machine", "learning", "platform", "research",
        "engineer">> }

LlmReplies ==
    {Reply("raises", <<>>), Reply("malformed", <<>>)}
        \cup {Reply("roles", t) : t \in UNION {[1 .. n -> LlmTitles] : n \in 0 .. MaxLlmRoles}}

Extraction(call, use_llm, have_key, remaining, reply, out) ==
    [call |-> call, use_llm |-> use_llm, have_key |-> have_key, remaining |-> remaining,
     reply |-> reply, raised |-> out.raised, titles |-> out.titles]

NoExtractCall ==
    /\ prompt = <<>>
    /\ extraction = Extraction("none", "none", FALSE, 0, NoReply,
                               [raised |-> FALSE, titles |-> <<>>])

EInit ==
    /\ frontend = "tabs"
    /\ session = 0
    /\ user_prompt = <<>>
    /\ roles = <<>>
    /\ plan_stale = FALSE
    /\ kb_core = <<>>
    /\ kb_custom = <<>>
    /\ templates = {}
    /\ clock = 1
    /\ disk = [n \in DiskNames |-> Absent]
    /\ writer = IdleWriter
    /\ loaded = NoLoad
    /\ NoMatchCall
    /\ NoSavers
    /\ NoBudget
    /\ prompt \in Prompts
    /\ extraction = Extraction("none", "none", FALSE, 0, NoReply,
                               [raised |-> FALSE, titles |-> <<>>])

\* the replies the request of one call can get: none when no request is made
RepliesWhen(requested) == IF requested THEN LlmReplies ELSE {NoReply}

\* extract_candidate_phrases(prompt, use_llm), once per prompt
ExtractCandidatePhrases(use_llm, have_key) ==
    /\ extraction.call = "none"
    /\ \E reply \in RepliesWhen(should_use_llm(use_llm, have_key) /\ have_key) :
         extraction' = Extraction("extract_candidate_phrases", use_llm, have_key, 0, reply,
                                  extract_candidate_phrases(prompt, use_llm, have_key, reply))
    /\ UNCHANGED <<svars, clock, fvars, mvars, savers, bvars, prompt>>

\* node_intake up to the titles, with remaining = max(0, cap - used)
IntakeTitles(use_llm_flag, have_key, remaining) ==
    /\ extraction.call = "none"
    /\ \E reply \in RepliesWhen(use_llm_flag /\ have_key /\ remaining > 0) :
         extraction' = Extraction("node_intake", IF use_llm_flag THEN "true" ELSE "false",
                                  have_key, remaining, reply,
                                  intake_titles(prompt, use_llm_flag, have_key, remaining, reply))
    /\ UNCHANGED <<svars, clock, fvars, mvars, savers, bvars, prompt>>

ExtractNext ==
    \/ \E use_llm \in {"none", "true", "false"} : \E have_key \in BOOLEAN :
         ExtractCandidatePhrases(use_llm, have_key)
    \/ \E use_llm_flag \in BOOLEAN : \E have_key \in BOOLEAN : \E remaining \in 0 .. 1 :
         IntakeTitles(use_llm_flag, have_key, remaining)

ExtractSpec == EInit /\ [][ExtractNext]_vars

\* the components checked on their own are at rest
NoCalls == NoMatchCall /\ NoExtractCall /\ NoSavers /\ NoBudget

\* ------------------------------------------------------------ the state machine
Init ==
    /\ frontend \in Frontends
    /\ session = 0
    /\ user_prompt = <<>>
    /\ roles = <<>>
    /\ plan_stale = FALSE
    /\ kb_core \in CoreFiles
    /\ kb_custom = <<>>
    /\ templates = {}
    /\ clock = 1
    /\ disk = [n \in DiskNames |-> Absent]
    /\ writer = IdleWriter
    /\ loaded = NoLoad
    /\ NoCalls

\* ui.py "Plan Hiring": a fresh AppState run through the graph
PlanHiring ==
    /\ session < MaxSessions
    /\ session' = session + 1
    /\ \E kb \in {load_kb(kb_core, kb_custom)} : \E matches \in {MatchTable(kb)} :
         \E titles \in TitleLists :
           /\ user_prompt' = titles
           /\ roles' = node_intake(<<>>, titles, kb, matches)
    /\ plan_stale' = FALSE
    /\ UNCHANGED <<fvars, xvars, frontend, kb_core, kb_custom, templates, clock>>

\* ui.py "Use selected suggestion" on the unresolved role idx, radio choice k,
\* then _invoke_and_store
LegacyAccept(idx, k) ==
    /\ frontend = "legacy" /\ session > 0
    /\ idx \in Unresolved(roles)
    /\ k \in DOMAIN LegacySuggestions(roles, idx)
    /\ LET chosen == LegacyChosen(LegacySuggestions(roles, idx), k)
           patched == LegacyUseSuggestion(roles[idx], chosen, load_kb(kb_core, kb_custom))
       IN  roles' = invoke_graph([roles EXCEPT ![idx] = patched], user_prompt,
                             kb_core, kb_custom)
    /\ UNCHANGED <<fvars, xvars, frontend, session, user_prompt, plan_stale, kb_core, kb_custom, templates,
                   clock>>

\* ui.py "Create new role" on the unresolved role idx, then _invoke_and_store
LegacyCreate(idx, title) ==
    /\ frontend = "legacy" /\ session > 0
    /\ idx \in Unresolved(roles)
    /\ Len(kb_custom) < MaxCustom
    /\ LET w == save_custom_role(title, clock, kb_custom, templates)
           patched == LegacyCreateRole(roles[idx], w.saved)
       IN  /\ kb_custom' = w.kb_custom
           /\ templates' = w.templates
           /\ roles' = invoke_graph([roles EXCEPT ![idx] = patched], user_prompt,
                             kb_core, w.kb_custom)
    /\ UNCHANGED <<fvars, xvars, frontend, session, user_prompt, plan_stale, kb_core, clock>>

\* ui.py "Apply changes for this plan" on the matched role i (shown once
\* no role is unresolved), then _invoke_and_store
LegacyApply(i, title) ==
    /\ frontend = "legacy" /\ session > 0
    /\ Unresolved(roles) = {}
    /\ i \in Matched(roles)
    /\ roles' = invoke_graph([roles EXCEPT ![i] = ApplyChanges(roles[i], title)],
                             user_prompt, kb_core, kb_custom)
    /\ UNCHANGED <<fvars, xvars, frontend, session, user_prompt, plan_stale, kb_core, kb_custom, templates,
                   clock>>

\* ui.py "Save as custom template" on the matched role i, then _invoke_and_store
LegacySaveAs(i, title) ==
    /\ frontend = "legacy" /\ session > 0
    /\ Unresolved(roles) = {}
    /\ i \in Matched(roles)
    /\ Len(kb_custom) < MaxCustom
    /\ LET w == save_custom_role(title, clock, kb_custom, templates)
           patched == LegacySaveTemplate(roles[i], w.saved)
       IN  /\ kb_custom' = w.kb_custom
           /\ templates' = w.templates
           /\ roles' = invoke_graph([roles EXCEPT ![i] = patched], user_prompt,
                             kb_core, w.kb_custom)
    /\ UNCHANGED <<fvars, xvars, frontend, session, user_prompt, plan_stale, kb_core, clock>>

\* roles_tab "Add role": append an unresolved role, store only
AddRole(title) ==
    /\ frontend = "tabs" /\ session > 0
    /\ Len(roles) < MaxRoles
    /\ roles' = Append(roles,
         RoleSpec(NoneId, NoneFile, title, "suggest", NoConfidence, "none",
                  _suggest_from_kb(title, UsedIds(roles, 0), SuggestTopK,
                                   load_kb(kb_core, kb_custom))))
    /\ plan_stale' = TRUE
    /\ UNCHANGED <<fvars, xvars, frontend, session, user_prompt, kb_core, kb_custom, templates, clock>>

\* unresolved_role_panel "Use selected suggestion": entry k of the filtered
\* list of the unresolved role idx, store only
PanelAccept(idx, k) ==
    /\ frontend = "tabs" /\ session > 0
    /\ idx \in Unresolved(roles)
    /\ k \in DOMAIN PanelSuggestions(roles, idx)
    /\ roles' = [roles EXCEPT ![idx] =
         PanelUseSuggestion(roles[idx], PanelSuggestions(roles, idx)[k],
                            load_kb(kb_core, kb_custom))]
    /\ plan_stale' = TRUE
    /\ UNCHANGED <<fvars, xvars, frontend, session, user_prompt, kb_core, kb_custom, templates, clock>>

\* unresolved_role_panel "Create this custom role", store only
PanelCreate(idx, title) ==
    /\ frontend = "tabs" /\ session > 0
    /\ idx \in Unresolved(roles)
    /\ Len(title) > 0
    /\ Len(kb_custom) < MaxCustom
    /\ LET w == save_custom_role(title, clock, kb_custom, templates)
       IN  /\ kb_custom' = w.kb_custom
           /\ templates' = w.templates
           /\ roles' = [roles EXCEPT ![idx] = PanelCreateRole(roles[idx], w.saved)]
    /\ plan_stale' = TRUE
    /\ UNCHANGED <<fvars, xvars, frontend, session, user_prompt, kb_core, clock>>

\* matched_role_editor "Apply changes for this plan", store only
EditorApply(i, title) ==
    /\ frontend = "tabs" /\ session > 0
    /\ Unresolved(roles) = {}
    /\ i \in Matched(roles)
    /\ roles' = [roles EXCEPT ![i] = ApplyChanges(roles[i], title)]
    /\ plan_stale' = TRUE
    /\ UNCHANGED <<fvars, xvars, frontend, session, user_prompt, kb_core, kb_custom, templates, clock>>

\* matched_role_editor "Save as custom template", store only
EditorSaveAs(i, title) ==
    /\ frontend = "tabs" /\ session > 0
    /\ Unresolved(roles) = {}
    /\ i \in Matched(roles)
    /\ Len(kb_custom) < MaxCustom
    /\ LET w == save_custom_role(title, clock, kb_custom, templates)
       IN  /\ kb_custom' = w.kb_custom
           /\ templates' = w.templates
           /\ roles' = [roles EXCEPT ![i] = EditorSaveTemplate(roles[i], w.saved)]
    /\ plan_stale' = TRUE
    /\ UNCHANGED <<fvars, xvars, frontend, session, user_prompt, kb_core, clock>>

\* roles_tab "Generate plan & JDs": the graph runs again on the stored state
Regenerate ==
    /\ frontend = "tabs" /\ session > 0
    /\ Unresolved(roles) = {}
    /\ Matched(roles) /= {}
    /\ plan_stale
    /\ roles' = invoke_graph(roles, user_prompt, kb_core, kb_custom)
    /\ plan_stale' = FALSE
    /\ UNCHANGED <<fvars, xvars, frontend, session, user_prompt, kb_core, kb_custom, templates, clock>>

\* a second passes
Tick ==
    /\ clock < MaxClock
    /\ clock' = clock + 1
    /\ UNCHANGED <<fvars, xvars, frontend, session, user_prompt, roles, plan_stale, kb_core, kb_custom,
                   templates>>

Next ==
    \/ PlanHiring
    \/ \E idx \in DOMAIN roles : \E k \in DOMAIN roles[idx].suggestions : LegacyAccept(idx, k)
    \/ \E idx \in DOMAIN roles : \E title \in Phrases : LegacyCreate(idx, title)
    \/ \E i \in DOMAIN roles : \E title \in Phrases : LegacyApply(i, title)
    \/ \E i \in DOMAIN roles : \E title \in Phrases : LegacySaveAs(i, title)
    \/ \E title \in Phrases : AddRole(title)
    \/ \E idx \in DOMAIN roles : \E k \in DOMAIN roles[idx].suggestions : PanelAccept(idx, k)
    \/ \E idx \in DOMAIN roles : \E title \in Phrases : PanelCreate(idx, title)
    \/ \E i \in DOMAIN roles : \E title \in Phrases : EditorApply(i, title)
    \/ \E i \in DOMAIN roles : \E title \in Phrases : EditorSaveAs(i, title)
    \/ Regenerate
    \/ Tick

Spec == Init /\ [][Next]_vars

\* ------------------------------------------------------------ the writer, step by step
\* save_custom_role and its two _atomic_write calls as the steps a crash or
\* an exception can separate, on the files of data/; load_kb() reads them.
TemplateOf(title, now) ==
    CHOOSE t \in save_custom_role(title, now, <<>>, {}).templates : TRUE

\* the curated file as shipped, absent, or cut short
CoreTexts == {Absent, File(Dumps(KB_CORE)), File(SubSeq(Dumps(KB_CORE), 1, 2))}

\* the custom index: absent, an empty list, or cut short
CustomTexts == {Absent, File(Dumps(<<>>)), File(SubSeq(Dumps(<<>>), 1, 2))}

WInit ==
    /\ frontend = "tabs"
    /\ session = 0
    /\ user_prompt = <<>>
    /\ roles = <<>>
    /\ plan_stale = FALSE
    /\ kb_core = <<>>
    /\ kb_custom = <<>>
    /\ templates = {}
    /\ clock = 1
    /\ \E c \in CoreTexts : \E u \in CustomTexts :
         disk = [n \in DiskNames |->
                    IF n = KB_CORE_PATH THEN c ELSE IF n = KB_CUSTOM_PATH THEN u ELSE Absent]
    /\ writer = IdleWriter
    /\ loaded = NoLoad
    /\ NoCalls

\* save_custom_role rewriting the index before it writes the template file
save_stages_index_first == <<"idx", "tpl">>

\* the two _atomic_write calls of save_custom_role in their order: the
\* template file, then the index
save_stages == <<"tpl", "idx">>

\* the writer `was` as it comes to a stage of the save of title at second now,
\* with the files d: the template's _atomic_write is called, or the index is
\* about to be read
EnterStage(stage, was, title, now, d) ==
    IF stage = "tpl"
    THEN LET w == save_custom_role(title, now, <<>>, {})
         IN  Writer("open", "tpl", title, now, w.saved.file,
                    Dumps(<<TemplateOf(title, now)>>),
                    IF was.pc = "idle" THEN w.saved.file ELSE was.tmp, d[w.saved.file])
    ELSE [was EXCEPT !.pc = "read_index", !.title = title, !.now = now]

\* save_custom_role(payload) is called: id, tpl and the first write
BeginSave(title) ==
    /\ writer.pc = "idle"
    /\ \A c \in {read_json(disk[KB_CUSTOM_PATH])} : c.ok => Len(c.value) < MaxCustom
    /\ writer' = EnterStage(save_stages[1], writer, title, clock, disk)
    /\ loaded' = NoLoad
    /\ UNCHANGED <<svars, clock, xvars, disk>>

\* _atomic_write: NamedTemporaryFile("w", delete=False, dir=path.parent)
OpenTmp ==
    /\ writer.pc = "open"
    /\ \E t \in TempNames : ~disk[t].exists
    /\ \E tmp \in {TempFor(disk, writer.path)} :
         /\ disk' = [disk EXCEPT ![tmp] = File(<<>>)]
         /\ writer' = [writer EXCEPT !.pc = "write", !.tmp = tmp]
    /\ loaded' = NoLoad
    /\ UNCHANGED <<svars, clock, xvars>>

\* tmp.write(text): the next part of the text reaches the temporary file
WriteChunk ==
    /\ writer.pc = "write"
    /\ Len(disk[writer.tmp].text) < Len(writer.text)
    /\ disk' = [disk EXCEPT ![writer.tmp] =
                    File(Append(disk[writer.tmp].text,
                                writer.text[Len(disk[writer.tmp].text) + 1]))]
    /\ loaded' = NoLoad
    /\ UNCHANGED <<svars, clock, xvars, writer>>

\* tmp.write(text) raises (OSError): the with block closes the file and the
\* exception leaves _atomic_write
WriteRaises ==
    /\ writer.pc = "write"
    /\ Len(disk[writer.tmp].text) < Len(writer.text)
    /\ writer' = [writer EXCEPT !.pc = "raised"]
    /\ loaded' = NoLoad
    /\ UNCHANGED <<svars, clock, xvars, disk>>

\* the with block ends: the temporary file is complete and closed
CloseTmp ==
    /\ writer.pc = "write"
    /\ disk[writer.tmp].text = writer.text
    /\ writer' = [writer EXCEPT !.pc = "closed"]
    /\ loaded' = NoLoad
    /\ UNCHANGED <<svars, clock, xvars, disk>>

\* shutil.move(tmp_path, path): os.rename within one directory; after the
\* template comes the index, after the index the return
Move ==
    /\ writer.pc = "closed"
    /\ disk' = [disk EXCEPT ![writer.tmp] = Absent, ![writer.path] = disk[writer.tmp]]
    /\ writer' = IF writer.stage = save_stages[Len(save_stages)]
                 THEN [writer EXCEPT !.pc = "returned"]
                 ELSE EnterStage(save_stages[Len(save_stages)], writer, writer.title,
                                 writer.now, disk')
    /\ loaded' = NoLoad
    /\ UNCHANGED <<svars, clock, xvars>>

\* shutil.move raises (OSError)
MoveRaises ==
    /\ writer.pc = "closed"
    /\ writer' = [writer EXCEPT !.pc = "raised"]
    /\ loaded' = NoLoad
    /\ UNCHANGED <<svars, clock, xvars, disk>>

\* kb_custom = json.loads(KB_CUSTOM_PATH.read_text()) if it exists else [],
\* kb_custom.append(...), then the second _atomic_write is called
ReadIndex ==
    /\ writer.pc = "read_index"
    /\ \E c \in {read_json(disk[KB_CUSTOM_PATH])} :
         writer' =
            IF c.ok
            THEN Writer("open", "idx", writer.title, writer.now, KB_CUSTOM_PATH,
                        Dumps(save_custom_role(writer.title, writer.now, c.value, {}).kb_custom),
                        writer.tmp, disk[KB_CUSTOM_PATH])
            ELSE [writer EXCEPT !.pc = "raised"]
    /\ loaded' = NoLoad
    /\ UNCHANGED <<svars, clock, xvars, disk>>

\* the process dies inside save_custom_role
Crash ==
    /\ writer.pc \in Running
    /\ writer' = [writer EXCEPT !.pc = "crashed"]
    /\ loaded' = NoLoad
    /\ UNCHANGED <<svars, clock, xvars, disk>>

\* the application is ready for the next save
Again ==
    /\ writer.pc \in {"returned", "raised", "crashed"}
    /\ writer' = IdleWriter
    /\ loaded' = NoLoad
    /\ UNCHANGED <<svars, clock, xvars, disk>>

\* a reader calls load_kb()
Load ==
    /\ loaded' = load_kb_disk(disk)
    /\ UNCHANGED <<svars, clock, xvars, disk, writer>>

WriteNext ==
    \/ \E title \in Phrases : BeginSave(title)
    \/ OpenTmp
    \/ WriteChunk
    \/ WriteRaises
    \/ CloseTmp
    \/ Move
    \/ MoveRaises
    \/ ReadIndex
    \/ Crash
    \/ Again
    \/ Load

WriteSpec == WInit /\ [][WriteNext]_vars

\* ------------------------------------------------------------ two operators saving, the steps
\* the index written back starting from what is on disk at the rename
rewrite_index_merging(on_disk, custom, title, now) ==
    save_custom_role(title, now, on_disk, {}).kb_custom

\* kb_custom.append({...}); _atomic_write(KB_CUSTOM_PATH, json.dumps(kb_custom)):
\* the text that replaces the index, built from the list read earlier
rewrite_index(on_disk, custom, title, now) ==
    save_custom_role(title, now, custom, {}).kb_custom

RInit ==
    /\ frontend = "tabs"
    /\ session = 0
    /\ user_prompt = <<>>
    /\ roles = <<>>
    /\ plan_stale = FALSE
    /\ kb_core = <<>>
    /\ kb_custom = <<>>
    /\ templates = {}
    /\ clock = 1
    /\ disk = [n \in DiskNames |-> Absent]
    /\ writer = IdleWriter
    /\ loaded = NoLoad
    /\ NoMatchCall
    /\ NoExtractCall
    /\ NoSavers
    /\ NoBudget

\* save_custom_role(payload) is called: title, ts and tpl
SaverBegins(op, title) ==
    /\ savers[op].pc = "idle"
    /\ savers' = [savers EXCEPT ![op] = Saver("template", title, clock, <<>>)]
    /\ UNCHANGED <<svars, clock, fvars, mvars, evars, bvars>>

\* _atomic_write(file_abs, json.dumps(tpl)): the template file is in place
SaverWritesTemplate(op) ==
    /\ savers[op].pc = "template"
    /\ templates' = save_custom_role(savers[op].title, savers[op].now, <<>>, templates).templates
    /\ savers' = [savers EXCEPT ![op].pc = "read"]
    /\ UNCHANGED <<frontend, session, user_prompt, roles, plan_stale, kb_core, kb_custom,
                   clock, fvars, mvars, evars, bvars>>

\* kb_custom = json.loads(KB_CUSTOM_PATH.read_text()) if it exists else []
SaverReadsIndex(op) ==
    /\ savers[op].pc = "read"
    /\ savers' = [savers EXCEPT ![op].pc = "write", ![op].custom = kb_custom]
    /\ UNCHANGED <<svars, clock, fvars, mvars, evars, bvars>>

\* kb_custom.append(...); _atomic_write(KB_CUSTOM_PATH, ...); return
SaverWritesIndex(op) ==
    /\ savers[op].pc = "write"
    /\ kb_custom' = rewrite_index(kb_custom, savers[op].custom, savers[op].title, savers[op].now)
    /\ savers' = [savers EXCEPT ![op].pc = "done"]
    /\ UNCHANGED <<frontend, session, user_prompt, roles, plan_stale, kb_core, templates,
                   clock, fvars, mvars, evars, bvars>>

RaceNext ==
    \/ \E op \in Operators : \E title \in Phrases : SaverBegins(op, title)
    \/ \E op \in Operators : SaverWritesTemplate(op)
    \/ \E op \in Operators : SaverReadsIndex(op)
    \/ \E op \in Operators : SaverWritesIndex(op)
    \/ Tick

RaceSpec == RInit /\ [][RaceNext]_vars

\* ------------------------------------------------------------ the LLM call budget, the runs
MaxCap == 2
MaxMatched == 2

\* llm_cap of st.number_input(min_value=1)
MinCap == 1

\* one chat completion request: the feature, the cap, the calls counted when
\* it is made, whether it gives a usable result, the calls counted after it
Request(feature, llm_cap, used, ok, used_after) ==
    [feature |-> feature, llm_cap |-> llm_cap, used |-> used, ok |-> ok,
     used_after |-> used_after]

\* the reply of the extractor's request that is usable, and one that is not
IntakeReply(ok) ==
    IF ok THEN Reply("roles", << <<"qa", "engineer">> >>) ELSE Reply("malformed", <<>>)

\* node_intake, steps 1 and 2, on a state without roles: llm_calls after
\* bump_llm_usage and the request made
intake_budget(use_llm, have_key, cap, used, ok) ==
    LET remaining == Max2(0, cap - used)
        after == IF extract_roles_with_llm(have_key, IntakeReply(ok)).used
                 THEN used + 1 ELSE used
    IN  IF use_llm /\ have_key /\ remaining > 0
        THEN [used |-> after,
              log |-> <<Request("intake_extraction", cap, used, ok, after)>>]
        ELSE [used |-> used, log |-> <<>>]

\* refine_text_via_llm: remaining_calls after it, and whether it made a request
refine_text_via_llm(use_llm, have_key, remaining_calls, ok) ==
    IF ~use_llm \/ ~have_key \/ remaining_calls <= 0
    THEN [remaining |-> remaining_calls, requested |-> FALSE]
    ELSE [remaining |-> IF ok THEN remaining_calls - 1 ELSE remaining_calls,
          requested |-> TRUE]

\* the loop of node_jd over the matched roles from role k on
RECURSIVE RefineRoles(_, _, _, _, _, _, _)
RefineRoles(k, matched, use_llm, have_key, cap, remaining, oks) ==
    IF k > matched THEN [remaining |-> remaining, log |-> <<>>]
    ELSE LET r == refine_text_via_llm(use_llm, have_key, remaining, oks[k])
             rest == RefineRoles(k + 1, matched, use_llm, have_key, cap, r.remaining, oks)
         IN  [remaining |-> rest.remaining,
              log |-> (IF r.requested
                       THEN <<Request("jd_refine", cap, cap - remaining, oks[k],
                                      cap - r.remaining)>>
                       ELSE <<>>) \o rest.log]

\* node_jd: llm_calls = cap - remaining after the loop
jd_budget(use_llm, have_key, cap, used, matched, oks) ==
    LET r == RefineRoles(1, matched, use_llm, have_key, cap, Max2(0, cap - used), oks)
    IN  [used |-> cap - r.remaining, log |-> r.log]

\* node_plan: build_checklist runs with matched roles and JDs only;
\* _llm_generate_checklist returns None without the flag or the key, or
\* when `cap and used >= cap`
plan_budget(use_llm, have_key, cap, used, matched, ok) ==
    IF matched = 0 \/ ~use_llm \/ ~have_key \/ (cap /= 0 /\ used >= cap)
    THEN [used |-> used, log |-> <<>>]
    ELSE LET after == IF ok THEN used + 1 ELSE used
         IN  [used |-> after, log |-> <<Request("checklist", cap, used, ok, after)>>]

\* graph.invoke(state): intake, profile, jd, plan. `found` is what intake
\* makes of a prompt: no role, pending roles only, or a matched role
\* (the safety net); oks says which requests get a usable result
invoke_budget(b, found, oks) ==
    LET i == IF b.has_roles THEN [used |-> b.llm_calls, log |-> <<>>]
             ELSE intake_budget(b.use_llm, b.have_key, b.llm_cap, b.llm_calls, oks[1])
        has_roles == b.has_roles \/ found /= "none"
        matched == IF b.has_roles THEN b.matched ELSE IF found = "match" THEN 1 ELSE 0
        j == jd_budget(b.use_llm, b.have_key, b.llm_cap, i.used, matched, Tail(oks))
        c == plan_budget(b.use_llm, b.have_key, b.llm_cap, j.used, matched, oks[Len(oks)])
    IN  [budget |-> Budget(TRUE, b.use_llm, b.have_key, b.llm_cap, c.used, has_roles, matched),
         requests |-> i.log \o j.log \o c.log]

\* the outcomes of the requests of one run: intake, one per role, checklist
Outcomes == [1 .. MaxMatched + 2 -> BOOLEAN]

Found == {"none", "pending", "match"}

BInit ==
    /\ frontend = "tabs"
    /\ session = 0
    /\ user_prompt = <<>>
    /\ roles = <<>>
    /\ plan_stale = FALSE
    /\ kb_core = <<>>
    /\ kb_custom = <<>>
    /\ templates = {}
    /\ clock = 1
    /\ disk = [n \in DiskNames |-> Absent]
    /\ writer = IdleWriter
    /\ loaded = NoLoad
    /\ NoMatchCall
    /\ NoExtractCall
    /\ NoSavers
    /\ \E have_key \in BOOLEAN : budget = Budget(FALSE, FALSE, have_key, MinCap, 0, FALSE, 0)
    /\ requests = <<>>

\* "Plan Hiring": a fresh AppState with llm_calls 0 run through the graph
BudgetPlanHiring(use_llm, cap, found, oks) ==
    /\ \E r \in {invoke_budget(Budget(TRUE, use_llm, budget.have_key, cap, 0, FALSE, 0),
                               found, oks)} :
         budget' = r.budget /\ requests' = r.requests
    /\ UNCHANGED <<svars, clock, fvars, mvars, evars, savers>>

\* "Use selected suggestion" in the tabs front end: the role becomes a match
\* and _store_only_wrapper stores the state without running the graph
BudgetRoleMatched ==
    /\ budget.started
    /\ budget.matched < MaxMatched
    /\ budget' = [budget EXCEPT !.has_roles = TRUE, !.matched = @ + 1]
    /\ requests' = <<>>
    /\ UNCHANGED <<svars, clock, fvars, mvars, evars, savers>>

\* "Generate plan & JDs": _invoke_and_store_wrapper runs the graph again on
\* the session's state
BudgetRerun(found, oks) ==
    /\ budget.started
    /\ \E r \in {invoke_budget(budget, found, oks)} :
         budget' = r.budget /\ requests' = r.requests
    /\ UNCHANGED <<svars, clock, fvars, mvars, evars, savers>>

\* "Suggest with AI": the button is disabled when used >= cap;
\* bump_llm_usage counts the call when meta["used"]
BudgetSuggestSkills(ok) ==
    /\ budget.started
    /\ budget.llm_calls < budget.llm_cap
    /\ \E after \in {IF budget.have_key /\ ok THEN budget.llm_calls + 1 ELSE budget.llm_calls} :
         /\ budget' = [budget EXCEPT !.llm_calls = after]
         /\ requests' = IF budget.have_key
                        THEN <<Request("skill_suggestion", budget.llm_cap, budget.llm_calls,
                                       ok, after)>>
                        ELSE <<>>
    /\ UNCHANGED <<svars, clock, fvars, mvars, evars, savers>>

BudgetNext ==
    \/ \E use_llm \in BOOLEAN : \E cap \in MinCap .. MaxCap : \E found \in Found :
         \E oks \in Outcomes : BudgetPlanHiring(use_llm, cap, found, oks)
    \/ BudgetRoleMatched
    \/ \E found \in Found : \E oks \in Outcomes : BudgetRerun(found, oks)
    \/ \E ok \in BOOLEAN : BudgetSuggestSkills(ok)

BudgetSpec == BInit /\ [][BudgetNext]_vars

\* ------------------------------------------------------------ the matcher on its own
\* match_one(phrase, kb, 88) on merged KBs large enough for both of its cuts:
\* more than ten match_corpus entries, more than three records.
MaxMatchCustom == 1

\* the phrases resolved
MatchPhrases == {<<"f", "e">>, <<"e">>, <<"x">>}

CuratedRecord(title, aliases) ==
    [id |-> [slug |-> Slugify(title), stamp |-> 0], title |-> title, aliases |-> aliases,
     file |-> CoreFile([slug |-> Slugify(title), stamp |-> 0]), created_at |-> NoneTime]

\* curated records, three match_corpus entries each
MatchPool ==
    << CuratedRecord(<<"f", "e">>, << <<"o", "e">>, <<"f", "e", "x">> >>),
       CuratedRecord(<<"g", "i">>, << <<"f", "e">>, <<"g">> >>),
       CuratedRecord(<<"e">>, << <<"e", "x">>, <<"o">> >>),
       CuratedRecord(<<"x">>, << <<"x", "g">>, <<"i">> >>),
       CuratedRecord(<<"o", "e">>, << <<"f">>, <<"f", "e", "g">> >>) >>

Reverse(s) == [i \in DOMAIN s |-> s[Len(s) + 1 - i]]

\* data/roles_kb.json: any of the pool's records, in the pool's order or in
\* the opposite one
MatchCores ==
    UNION {{SelectSeq(MatchPool, LAMBDA r : r \in {MatchPool[i] : i \in S}),
            SelectSeq(Reverse(MatchPool), LAMBDA r : r \in {MatchPool[i] : i \in S})} :
           S \in SUBSET DOMAIN MatchPool}

\* data/roles_kb_custom.json after n saves, one per second
RECURSIVE SavedCustoms(_)
SavedCustoms(n) ==
    IF n = 0 THEN {<<>>}
    ELSE UNION {{save_custom_role(t, n, c, {}).kb_custom : t \in MatchPhrases} :
                c \in SavedCustoms(n - 1)}

MatchCustoms == UNION {SavedCustoms(n) : n \in 0 .. MaxMatchCustom}

MInit ==
    /\ frontend = "tabs"
    /\ session = 0
    /\ user_prompt = <<>>
    /\ roles = <<>>
    /\ plan_stale = FALSE
    /\ kb_core = <<>>
    /\ kb_custom = <<>>
    /\ templates = {}
    /\ clock = 1
    /\ disk = [n \in DiskNames |-> Absent]
    /\ writer = IdleWriter
    /\ loaded = NoLoad
    /\ \E core \in MatchCores : \E custom \in MatchCustoms :
         match_kb = load_kb(core, custom)
    /\ match_phrase = <<>>
    /\ match_result = MatchResult("unknown", NoneId, <<>>, NoneFile, 0, <<>>)
    /\ NoExtractCall
    /\ NoSavers
    /\ NoBudget

\* m = match_one(title, kb, fuzzy_threshold=88)
MatchOne(phrase) ==
    /\ match_phrase' = phrase
    /\ match_result' = match_one(phrase, match_kb, DefaultFuzzyThreshold)
    /\ UNCHANGED <<svars, clock, fvars, evars, savers, bvars, match_kb>>

MatchNext == \E phrase \in MatchPhrases : MatchOne(phrase)

MatchSpec == MInit /\ [][MatchNext]_vars


\* ============================================================ the claims
Pending == {"suggest", "unknown"}

\* fuzzy thresholds the matcher is checked with, besides the default
Thresholds == {20, DefaultFuzzyThreshold, 100}

\* C1: no two distinct RoleSpecs of a session are both in status match with
\* the same role_id
C1_NoTemplateOnTwoRoles ==
    \A i, j \in DOMAIN roles :
        (i /= j /\ roles[i].status = "match" /\ roles[j].status = "match")
            => roles[i].role_id /= roles[j].role_id

\* the step finalizes the pending role i by an operator decision
OperatorFinalizes(i) ==
    \/ \E k \in 1 .. TopSuggestions : LegacyAccept(i, k) \/ PanelAccept(i, k)
    \/ \E title \in Phrases : LegacyCreate(i, title) \/ PanelCreate(i, title)

\* role i is in status match after the step and was not before it
BecomesMatch(i) ==
    /\ i \in DOMAIN roles'
    /\ roles'[i].status = "match"
    /\ ~(session' = session /\ i \in DOMAIN roles /\ roles[i].status = "match")

\* C2 as stated: a RoleSpec acquires status match only through an operator
\* action; intake creates exactly one RoleSpec per extracted phrase, each with
\* the status match_one classified the phrase as
C2_MatchOnlyByOperator ==
    [][/\ session' /= session =>
            /\ Len(roles') = Len(user_prompt')
            /\ \A t \in DOMAIN roles' :
                 roles'[t].status =
                    match_one(user_prompt'[t], load_kb(kb_core, kb_custom),
                              DefaultFuzzyThreshold).status
       /\ \A i \in DOMAIN roles' : BecomesMatch(i) => OperatorFinalizes(i)]_vars

\* intake's safety net applies: nothing was extracted or no extracted phrase
\* has a suggestion, and the KB has the founding_engineer record
SafetyNet(titles, kb) ==
    /\ \/ Len(titles) = 0
       \/ \A t \in DOMAIN titles :
            Len(match_one(titles[t], kb, DefaultFuzzyThreshold).suggestions) = 0
    /\ \E r \in DOMAIN kb : kb[r].id = FoundingEngineerId

\* C2 (amended): a RoleSpec acquires status match only through an operator
\* action or through intake's safety net: every RoleSpec intake creates from an
\* extracted phrase has the status match_one classified the phrase as (suggest
\* or unknown), and intake adds at most one further role, the founding_engineer
\* record in status match with confidence 1.0 and no suggestions, exactly when
\* the safety net applies
C2_IntakeStatusFromMatcher ==
    [][/\ session' /= session =>
            \E kb \in {load_kb(kb_core, kb_custom)} : \E n \in {Len(user_prompt')} :
                /\ Len(roles') = IF SafetyNet(user_prompt', kb) THEN n + 1 ELSE n
                /\ \A t \in 1 .. n :
                     /\ roles'[t].status =
                            match_one(user_prompt'[t], kb, DefaultFuzzyThreshold).status
                     /\ roles'[t].status \in Pending
                /\ SafetyNet(user_prompt', kb) =>
                     /\ roles'[n + 1].status = "match"
                     /\ roles'[n + 1].role_id = FoundingEngineerId
                     /\ roles'[n + 1].confidence = FullConfidence
                     /\ roles'[n + 1].suggestions = <<>>
       /\ session' = session =>
            \A i \in DOMAIN roles' : BecomesMatch(i) => OperatorFinalizes(i)]_vars

C2_Witness ==
    \E i, j \in DOMAIN roles :
        /\ roles[i].status = "suggest" /\ Len(roles[i].suggestions) > 0
        /\ roles[j].status = "match" /\ roles[j].role_id /= FoundingEngineerId

\* C3: for every phrase, KB and threshold match_one returns status suggest or
\* unknown, never match, with role_id and file unset
C3_MatcherNeverFinalizes ==
    \A ph \in Phrases : \A thr \in Thresholds :
        \A m \in {match_one(ph, load_kb(kb_core, kb_custom), thr)} :
            /\ m.status \in Pending
            /\ m.role_id = NoneId
            /\ m.file = NoneFile

\* a phrase matched a custom record exactly at intake and is only suggested
C3_Witness ==
    /\ kb_custom /= <<>>
    /\ \E i \in DOMAIN roles :
        /\ roles[i].status = "suggest"
        /\ roles[i].confidence = ScoreScale
        /\ \E k \in DOMAIN roles[i].suggestions :
             roles[i].suggestions[k].is_custom /\ roles[i].suggestions[k].score = ScoreScale

\* the role_id of a RoleSpec is that of suggestion s and its title and file
\* are those of a KB record with that id
TakenFromRecord(role, s, kb) ==
    /\ role.role_id = s.role_id
    /\ \E r \in DOMAIN kb :
        kb[r].id = s.role_id /\ role.title = kb[r].title /\ role.file = kb[r].file

TakenFromSaved(role, title, now) ==
    /\ role.role_id = [slug |-> Slugify(title), stamp |-> now]
    /\ role.title = title
    /\ role.file = CustomFile(role.role_id)
    /\ \E t \in templates' : t.id = role.role_id /\ t.title = title

\* C5: creating a custom role for a pending role moves it to status match
\* with role_id, title and file as returned by save_custom_role for the
\* template just written, confidence_source "manual" and confidence None
C5_CreateCustomIsManual ==
    [][\A idx \in DOMAIN roles : \A title \in Phrases :
        (LegacyCreate(idx, title) \/ PanelCreate(idx, title)) =>
            /\ roles[idx].status \in Pending
            /\ roles'[idx].status = "match"
            /\ TakenFromSaved(roles'[idx], title, clock)
            /\ roles'[idx].confidence_source = "manual"
            /\ roles'[idx].confidence = NoConfidence]_vars


\* C6: a RoleSpec in status match has no suggestions
C6_MatchHasNoSuggestions ==
    \A i \in DOMAIN roles : roles[i].status = "match" => roles[i].suggestions = <<>>

\* a role finalized by the operator stands beside a pending one
C6_Witness ==
    \E i, j \in DOMAIN roles :
        /\ roles[i].status = "match" /\ roles[i].role_id /= FoundingEngineerId
        /\ roles[j].status \in Pending

\* C7: a RoleSpec in status suggest or unknown has role_id unset
C7_PendingHasNoRoleId ==
    \A i \in DOMAIN roles : roles[i].status \in Pending => roles[i].role_id = NoneId

\* a pending role produced by intake beside one appended by "Add a role"
C7_Witness ==
    \E i, j \in DOMAIN roles :
        /\ roles[i].status \in Pending /\ roles[i].confidence /= NoConfidence
        /\ roles[j].status = "suggest" /\ roles[j].confidence = NoConfidence

\* C8: within a session a RoleSpec in status match stays in the roles, in
\* status match, whatever the operation
C8_MatchIsTerminal ==
    [][session' = session =>
        \A i \in DOMAIN roles :
            roles[i].status = "match" =>
                i \in DOMAIN roles' /\ roles'[i].status = "match"]_vars

\* the graph ran again on roles the operator had finalized
C8_Witness ==
    /\ frontend = "tabs"
    /\ ~plan_stale
    /\ \E i \in DOMAIN roles :
        roles[i].status = "match" /\ roles[i].confidence_source = "manual"

\* C9: within a session no operation removes or replaces a RoleSpec: the
\* roles never get fewer, a step changes at most one existing role, a changed
\* role is one an operator decision finalized or edited, and a graph re-run
\* on a non-empty roles list leaves it unchanged
C9_RolesStayInPlace ==
    [][session' = session =>
        /\ Len(roles') >= Len(roles)
        /\ Cardinality({i \in DOMAIN roles : roles'[i] /= roles[i]}) <= 1
        /\ \A i \in DOMAIN roles : roles'[i] /= roles[i] => roles'[i].status = "match"
        /\ Regenerate => roles' = roles]_vars

\* a role was added to those of intake, all were finalized, the graph re-ran
C9_Witness ==
    /\ frontend = "tabs"
    /\ ~plan_stale
    /\ Len(roles) >= 2
    /\ roles[Len(roles)].confidence_source = "manual"
    /\ \A i \in DOMAIN roles : roles[i].status = "match"

\* C10: the suggestions displayed for a pending role contain no role_id that
\* is finalized on another RoleSpec of the session
C10_DisplayedExcludesUsed ==
    \A idx \in Unresolved(roles) :
        \A j \in Matched(roles) \ {idx} :
            \A s \in SeqToSet(DisplayedSuggestions(frontend, roles, idx)) :
                s.role_id /= roles[j].role_id

\* C11: at every step of a write, crashes and exceptions included, the final
\* path holds what it held when the write began (nothing, if it did not
\* exist) or the complete new text, never a part of it
C11_NoPartialFile ==
    writer.pc /= "idle" =>
        \/ disk[writer.path] = writer.old
        \/ disk[writer.path] = File(writer.text)

\* the process died with the temporary file half written, the index in place
C11_Witness ==
    /\ writer.pc = "crashed"
    /\ writer.stage = "idx"
    /\ disk[writer.tmp].exists
    /\ Len(disk[writer.tmp].text) \in 1 .. 2
    /\ disk[KB_CUSTOM_PATH] = writer.old
    /\ writer.old.exists

\* the step is a save_custom_role call with this title, from any handler
SaveStep(title) ==
    \E i \in DOMAIN roles :
        \/ LegacyCreate(i, title) \/ PanelCreate(i, title)
        \/ LegacySaveAs(i, title) \/ EditorSaveAs(i, title)

\* C12: no save gets the id of a template an earlier save wrote (two saves of
\* one title within one second included), and the templates written earlier
\* stay as they are
C12_SavesNeverCollide ==
    [][\A title \in Phrases :
        SaveStep(title) =>
            /\ kb_custom'[Len(kb_custom')].id \notin {t.id : t \in templates}
            /\ templates \subseteq templates']_vars

\* C13: after a save of a title no KB record had, the next load_kb returns
\* exactly one record with that title; it has the id and the file the save
\* returned (the ones the patched role carries), is_custom true and a
\* created_at timestamp
C13_SaveThenLoad ==
    [][\A title \in Phrases :
        (/\ SaveStep(title)
         /\ \A r \in SeqToSet(load_kb(kb_core, kb_custom)) : r.title /= title) =>
            \E kb \in {load_kb(kb_core, kb_custom')} :
                /\ Cardinality({n \in DOMAIN kb : kb[n].title = title}) = 1
                /\ \A n \in DOMAIN kb :
                     kb[n].title = title =>
                        /\ kb[n].is_custom
                        /\ kb[n].created_at = clock /\ kb[n].created_at /= NoneTime
                        /\ kb[n].file.dir = "custom" /\ kb[n].file.name = kb[n].id
                        /\ \E i \in DOMAIN roles' :
                             /\ roles'[i] /= roles[i]
                             /\ roles'[i].role_id = kb[n].id
                             /\ roles'[i].file = kb[n].file
                             /\ roles'[i].title = title]_vars

\* a custom role saved from a pending role is the one KB record of its title
C13_Witness ==
    \E i \in DOMAIN roles :
        /\ roles[i].status = "match"
        /\ roles[i].role_id.stamp > 0
        /\ Cardinality({n \in DOMAIN kb_custom : kb_custom[n].title = roles[i].title}) = 1
        /\ \A n \in DOMAIN kb_core : kb_core[n].title /= roles[i].title

\* C14: the records load_kb returns have pairwise distinct ids
C14_MergedIdsUnique ==
    \A kb \in {load_kb(kb_core, kb_custom)} :
        \A m, n \in DOMAIN kb : m /= n => kb[m].id /= kb[n].id

\* C15: when an atomic write is left, by return or by exception, its
\* temporary file is gone
C15_NoTempLeftBehind ==
    writer.pc \in {"returned", "raised"} => ~disk[writer.tmp].exists

\* the file exists and its text is not a complete JSON document
Malformed(f) == f.exists /\ f.text /= Dumps(IF Len(f.text) >= 2 THEN f.text[2].v ELSE <<>>)

\* the records a well-formed or missing file holds
RecordsOf(f) == IF f.exists THEN f.text[2].v ELSE <<>>

\* C16: load_kb fails exactly when the curated or the custom file exists
\* with malformed JSON; otherwise it returns the records of both files, a
\* missing file counting as an empty collection
C16_LoadFailsOnCorruptFile ==
    [][Load =>
        IF Malformed(disk[KB_CORE_PATH]) \/ Malformed(disk[KB_CUSTOM_PATH])
        THEN ~loaded'.ok /\ loaded'.kb = <<>>
        ELSE /\ loaded'.ok
             /\ \E recs \in {RecordsOf(disk[KB_CORE_PATH]) \o RecordsOf(disk[KB_CUSTOM_PATH])} :
                  /\ Len(loaded'.kb) = Len(recs)
                  /\ \A n \in DOMAIN recs :
                       /\ loaded'.kb[n].id = recs[n].id
                       /\ loaded'.kb[n].title = recs[n].title
                       /\ loaded'.kb[n].file = recs[n].file]_vars

\* load_kb failed on a cut-short custom index although the curated file is
\* intact and a custom template is on disk
C16_Witness ==
    /\ ~loaded.ok
    /\ disk[KB_CORE_PATH] = File(Dumps(KB_CORE))
    /\ Malformed(disk[KB_CUSTOM_PATH])
    /\ \E p \in TemplatePaths : disk[p].exists

\* the ranked suggestions of a phrase against a KB: the top 3 of the scores
\* aggregated per role id
RankedSuggestions(ph, kb) ==
    With(Choices(kb, 1), LAMBDA choices :
        SuggestionsOf(kb, Aggregate(kb, choices, Extract(ph, choices, TopKLimit),
                                    TopSuggestions)))

C18_NoMatchIsUnknown ==
    \A ph \in Phrases : \A thr \in Thresholds :
        \E kb \in {load_kb(kb_core, kb_custom)} :
            (/\ Len(kb) > 0
             /\ \A n \in DOMAIN kb : \A c \in DOMAIN kb[n].match_corpus :
                  token_set_ratio(ph, kb[n].match_corpus[c]) * 100
                      < (thr - WeakMargin) * ScoreScale) =>
                \E m \in {match_one(ph, kb, thr)} :
                    m.status = "unknown" /\ m.suggestions = <<>>

\* C19: for a KB without match_corpus entries match_one returns unknown,
\* confidence 0.0 and no suggestions, for every phrase and threshold
C19_EmptyKbIsUnknown ==
    \A ph \in Phrases : \A thr \in Thresholds :
        \E kb \in {load_kb(kb_core, kb_custom)} :
            Len(Choices(kb, 1)) = 0 =>
                \E m \in {match_one(ph, kb, thr)} :
                    m.status = "unknown" /\ m.confidence = 0 /\ m.suggestions = <<>>

\* intake ran on an empty KB
C19_Witness ==
    /\ kb_core = <<>> /\ kb_custom = <<>>
    /\ \E i \in DOMAIN roles :
        roles[i].status = "unknown" /\ roles[i].confidence = 0 /\ roles[i].suggestions = <<>>

\* C20: a match_one result has at most 3 suggestions, their scores do not
\* increase along the list, and its confidence is the first suggestion's score
C20_SuggestionsRanked ==
    \A ph \in Phrases : \A thr \in Thresholds :
        \E m \in {match_one(ph, load_kb(kb_core, kb_custom), thr)} :
            /\ Len(m.suggestions) <= 3
            /\ \A p, q \in DOMAIN m.suggestions :
                 p < q => m.suggestions[p].score >= m.suggestions[q].score
            /\ Len(m.suggestions) > 0 => m.confidence = m.suggestions[1].score

\* intake kept 3 of the 4 or more ids of the KB, in descending order of score
C20_Witness ==
    /\ kb_core = KB_CORE
    /\ \E i \in DOMAIN roles :
        /\ roles[i].status = "suggest"
        /\ roles[i].confidence >= 0
        /\ Len(roles[i].suggestions) = 3
        /\ roles[i].suggestions[1].score > roles[i].suggestions[3].score
        /\ \E n \in DOMAIN kb_core :
             \A p \in DOMAIN roles[i].suggestions :
                roles[i].suggestions[p].role_id /= kb_core[n].id


\* the records of kb that carry the phrase as their title or as an alias
ExactRecords(kb, phrase) ==
    {i \in DOMAIN kb : \E c \in DOMAIN kb[i].match_corpus : kb[i].match_corpus[c] = phrase}

\* C21: a phrase equal to the title or an alias of a KB record gets that
\* record among the suggestions of match_one with score at least 0.99,
\* however many other records score as high.
C21_ExactHitIsSuggested ==
    match_phrase /= <<>> =>
        \A i \in ExactRecords(match_kb, match_phrase) :
            \E p \in DOMAIN match_result.suggestions :
                /\ match_result.suggestions[p].role_id = match_kb[i].id
                /\ match_result.suggestions[p].score * 100 >= 99 * ScoreScale


\* the external path of the extraction delivered at least one title
Delivered(e) ==
    /\ e.have_key
    /\ \/ e.call = "extract_candidate_phrases" /\ e.use_llm \in {"true", "none"}
       \/ e.call = "node_intake" /\ e.use_llm = "true" /\ e.remaining > 0
    /\ e.reply.kind = "roles"
    /\ \E i \in DOMAIN e.reply.titles : Len(e.reply.titles[i]) > 0

\* C22: extraction never raises because of the external extractor; when the
\* external path is disabled, throws or returns no titles, the titles of
\* extract_candidate_phrases and of node_intake are the heuristic splitter's
\* output for the prompt.
C22_FallsBackToHeuristic ==
    extraction.call /= "none" =>
        /\ ~extraction.raised
        /\ ~Delivered(extraction) =>
              extraction.titles = _heuristic_titles_from_prompt(prompt)

\* node_intake asked the extractor, the request raised, and the heuristic
\* titles of a prompt with two roles are used
C22_Witness ==
    /\ extraction.call = "node_intake"
    /\ extraction.use_llm = "true" /\ extraction.have_key /\ extraction.remaining > 0
    /\ extraction.reply.kind = "raises"
    /\ ~extraction.raised
    /\ Len(extraction.titles) = 2


NoRepeats(titles) == \A i, j \in DOMAIN titles : titles[i] = titles[j] => i = j

\* C23: on both extraction paths the list of extract_candidate_phrases has
\* no duplicate phrase and every phrase has between 1 and 7 tokens, also
\* after the head-noun repair has appended a noun.
C23_PhrasesDistinctAndShort ==
    extraction.call = "extract_candidate_phrases" =>
        /\ NoRepeats(extraction.titles)
        /\ \A i \in DOMAIN extraction.titles :
              1 <= Len(extraction.titles[i]) /\ Len(extraction.titles[i]) <= MaxPhraseTokens


\* the role nouns as a prompt writes them: singular, or the plural in use
RoleNouns == _HEAD_NOUNS \cup {"engineers"}

EndsInRoleNoun(phrase) == Len(phrase) > 0 /\ phrase[Len(phrase)] \in RoleNouns

\* a list of one-word modifiers followed by a phrase that carries the noun
ModifierList(parts) ==
    /\ Len(parts) >= 2
    /\ \A i \in 1 .. Len(parts) - 1 :
          Len(parts[i]) = 1 /\ Lower(parts[i][1]) \notin RoleNouns \cup _STOP_HEAD
    /\ Len(parts[Len(parts)]) = 2
    /\ Lower(parts[Len(parts)][1]) \notin RoleNouns \cup _STOP_HEAD
    /\ EndsInRoleNoun(parts[Len(parts)])

\* C24: for a list of modifiers followed by a phrase that carries the role
\* noun, such as "backend, frontend, and QA engineers", heuristic extraction
\* yields one phrase per item and every phrase ends in a role noun.
C24_ModifiersGetHeadNoun ==
    /\ extraction.call = "extract_candidate_phrases"
    /\ ~Delivered(extraction)
    /\ ModifierList(SplitParts(prompt, <<>>))
    => /\ Len(extraction.titles) = Len(SplitParts(prompt, <<>>))
       /\ \A i \in DOMAIN extraction.titles : EndsInRoleNoun(extraction.titles[i])


AllSaved == \A op \in Operators : savers[op].pc = "done"

SavedBy(op) == save_custom_role(savers[op].title, savers[op].now, savers[op].custom, {})

\* C25: two save_custom_role calls that run concurrently both complete, both
\* template files exist, and the index is the list one of them read plus its
\* own entry: the later rename wins, whatever the other call wrote.
C25_LastIndexWriterWins ==
    AllSaved =>
        /\ \E op \in Operators : kb_custom = SavedBy(op).kb_custom
        /\ \A op \in Operators : SavedBy(op).templates \subseteq templates

\* both calls are complete, both template files exist, and the index holds
\* one entry: the other operator's entry is lost
C25_Witness ==
    /\ AllSaved
    /\ Cardinality(templates) = 2
    /\ Len(kb_custom) = 1


\* the template file an index entry points at is there, whole
TemplateInPlace(entry) ==
    /\ entry.file \in DOMAIN disk
    /\ disk[entry.file] = File(Dumps(<<TemplateOf(entry.title, entry.created_at)>>))

\* C26: the template file is written before the index, so in every reachable
\* state, crashes included, each entry of the custom index points at a
\* template file that exists with complete content; a crash can only leave a
\* template file without an entry.
C26_IndexEntriesHaveTemplates ==
    \A c \in {read_json(disk[KB_CUSTOM_PATH])} :
        c.ok => \A i \in DOMAIN c.value : TemplateInPlace(c.value[i])

\* the process died after the template file was in place and before the
\* index was replaced: the file is there and no entry of the index names it,
\* next to an entry of an earlier save
C26_Witness ==
    /\ writer.pc = "crashed"
    /\ \E c \in {read_json(disk[KB_CUSTOM_PATH])} :
          /\ c.ok
          /\ Len(c.value) > 0
          /\ \E path \in TemplatePaths :
                /\ disk[path].exists
                /\ \A i \in DOMAIN c.value : c.value[i].file /= path


\* the scores of all match_corpus entries of the records that carry id rid
ScoresOfId(kb, phrase, rid) ==
    UNION {{token_set_ratio(phrase, kb[i].match_corpus[c]) : c \in DOMAIN kb[i].match_corpus} :
           i \in {j \in DOMAIN kb : kb[j].id = rid}}

\* C27: in a match_one result each role id appears at most once and the
\* score of a suggestion is the maximum over all match_corpus entries of its
\* record, title and every alias, whether or not they are in the top-10 cut.
C27_BestScorePerRole ==
    match_phrase /= <<>> =>
        \A p \in DOMAIN match_result.suggestions :
            /\ \A q \in DOMAIN match_result.suggestions :
                  match_result.suggestions[q].role_id = match_result.suggestions[p].role_id
                      => q = p
            /\ match_result.suggestions[p].score =
                  SetMax(ScoresOfId(match_kb, match_phrase, match_result.suggestions[p].role_id))

\* more than ten corpus entries, and a suggested record with an entry that
\* scores below the score reported and is cut off by the top 10
C27_Witness ==
    /\ match_phrase /= <<>>
    /\ \E choices \in {Choices(match_kb, 1)} :
         /\ Len(choices) > TopKLimit
         /\ \E topk \in {Extract(match_phrase, choices, TopKLimit)} :
            \E p \in DOMAIN match_result.suggestions : \E k \in DOMAIN choices :
               /\ match_kb[choices[k].rec].id = match_result.suggestions[p].role_id
               /\ token_set_ratio(match_phrase, choices[k].txt) < match_result.suggestions[p].score
               /\ \A t \in DOMAIN topk : topk[t].idx /= k
               /\ \E k2 \in DOMAIN choices : \E t \in DOMAIN topk :
                     /\ topk[t].idx = k2 /\ k2 > k
                     /\ match_kb[choices[k2].rec].id = match_result.suggestions[p].role_id

\* C28: the suggestions of match_one are in descending order of score, and
\* records of equal score are in the order of their first occurrence in the
\* merged KB, curated before custom, then file order.
C28_TiesInKbOrder ==
    match_phrase /= <<>> =>
        \A p, q \in DOMAIN match_result.suggestions :
            p < q =>
                \/ match_result.suggestions[p].score > match_result.suggestions[q].score
                \/ /\ match_result.suggestions[p].score = match_result.suggestions[q].score
                   /\ FirstIndexOfId(match_kb, match_result.suggestions[p].role_id)
                        < FirstIndexOfId(match_kb, match_result.suggestions[q].role_id)

\* a curated record whose title scores below its alias ties with a custom
\* record, and both are suggested
C28_Witness ==
    /\ match_phrase /= <<>>
    /\ \E p, q \in DOMAIN match_result.suggestions :
         /\ p < q
         /\ match_result.suggestions[p].score = match_result.suggestions[q].score
         /\ ~match_result.suggestions[p].is_custom
         /\ match_result.suggestions[q].is_custom
         /\ \E i \in DOMAIN match_kb :
               /\ match_kb[i].id = match_result.suggestions[p].role_id
               /\ token_set_ratio(match_phrase, match_kb[i].title)
                    < match_result.suggestions[p].score


\* C29: in every session state a role in status suggest has at least one
\* suggestion and a role in status unknown has none, for the roles of intake
\* and for the roles appended through "Add a role".
C29_StatusFitsSuggestions ==
    \A i \in DOMAIN roles :
        /\ roles[i].status = "suggest" => Len(roles[i].suggestions) >= 1
        /\ roles[i].status = "unknown" => Len(roles[i].suggestions) = 0


GraphFeatures == {"intake_extraction", "jd_refine", "checklist"}

\* C30: an extraction, JD refinement or checklist request is made only while
\* llm_calls < llm_cap, each request made raises llm_calls by one, and
\* llm_calls never exceeds llm_cap.
C30_EveryCallCounted ==
    /\ budget.llm_calls <= budget.llm_cap
    /\ \A n \in DOMAIN requests :
          requests[n].feature \in GraphFeatures =>
             /\ requests[n].used < requests[n].llm_cap
             /\ requests[n].used_after = requests[n].used + 1

====
